---- MODULE Spec2Model ----
(***************************************************************************)
(* Model of oidn-wgpu: the engine session run by RtFilter::execute_with_aux *)
(* and RtLightmapFilter::execute (src/src/filter.rs) and the texture-denoise *)
(* bridge denoise_texture / denoise_texture_with_aux                        *)
(* (src/src/wgpu_integration.rs).  The denoising engine (OIDN) and the GPU  *)
(* surface API (wgpu) are the environment: their answers are chosen         *)
(* nondeterministically.  One calling thread; pc is its position.           *)
(***************************************************************************)
EXTENDS Integers, Sequences, FiniteSets, TLC

\* ------------------------------------------------------------------ bounds
\* Top-level calls (execute / denoise) started in one behaviour.
MaxCalls == 2
\* Engine filter handles created in one behaviour.
MaxFilters == 2
\* Largest image width and height given to a filter used directly.
MaxW == 2
MaxH == 1
\* Bridge calls started in one behaviour, and the largest texture given to one.
MaxBridgeCalls == 1
MaxTexW == 2
MaxTexH == 2
\* Pixel codec and row packing on their own: the largest width whose row
\* stride is computed, and the largest image decoded, encoded and packed.
MaxRowW == 34
MaxPackW == 2
MaxPackH == 2
MaxThreads == 2
MaxClones == 8
MaxRetains == 2

\* ------------------------------------------------------------- basic values
\* Option<T>: None, or Some(v).
None == [some |-> FALSE, v |-> 0]
Some(val) == [some |-> TRUE, v |-> val]

\* A null engine handle (raw.is_null()).
Null == 0

\* f32 values are kept as <<sign, biased exponent, mantissa>>.
F32Zero == <<0, 0, 0>>
F32One == <<0, 127, 0>>
F32Half == <<0, 126, 0>>
F32Quarter == <<0, 125, 0>>

\* A slice of len floats, all equal to val.
Fill(len, val) == [i \in 1..len |-> val]

\* crate::Error (src/src/error.rs), and the results of a call.
Ok == [tag |-> "Ok", code |-> 0, message |-> ""]
NoResult == [tag |-> "none", code |-> 0, message |-> ""]
ErrInvalidDimensions == [tag |-> "InvalidDimensions", code |-> 0, message |-> ""]
ErrOutOfMemory == [tag |-> "OutOfMemory", code |-> 0, message |-> ""]
ErrFilterCreationFailed == [tag |-> "FilterCreationFailed", code |-> 0, message |-> ""]
ErrUnsupportedFormat == [tag |-> "UnsupportedFormat", code |-> 0, message |-> ""]
ErrBufferMapFailed == [tag |-> "BufferMapFailed", code |-> 0, message |-> ""]
OidnError(c, m) == [tag |-> "OidnError", code |-> c, message |-> m]
IsErr_OnlyEngine(r) == r.tag = "OidnError"
IsErr(r) == r.tag \notin {"Ok", "none"}

\* The engine's pending-error slot: sys::OIDNError code and message.
NoError == [code |-> 0, message |-> ""]
EngineErrors ==
    { [code |-> 1, message |-> "unknown"],
      [code |-> 4, message |-> "out of memory"] }

\* One entry of the log of engine and GPU operations of the current call.
Op(name, handle, extra) == [op |-> name, h |-> handle, x |-> extra]

\* One OidnDevice from OidnDevice::new (device.rs:144-148): the value is alive,
\* its Arc<()> has one owner, the engine handle has seen no retain or release.
Device0 == [alive |-> 1, arc |-> 1, cloned |-> 0, retains |-> 0, releases |-> 0]

VARIABLES
    pc,            \* position of the calling thread
    calls,         \* top-level calls started so far
    call,          \* the top-level call in progress: its kind and arguments
    result,        \* what the last top-level call returned
    ops,           \* engine and GPU operations of the current call, in order
    devError,      \* engine: the device's pending-error slot
    relCount,      \* engine: per buffer handle, the oidnReleaseBuffer calls on it
    live,          \* engine: buffer handles allocated and not released
    allocCount,    \* engine: successful oidnNewBuffer calls
    releaseCount,  \* engine: oidnReleaseBuffer calls
    bufData,       \* engine: contents of each buffer handle
    fRel,          \* engine: per filter handle, the oidnReleaseFilter calls on it
    rt,            \* the RtFilter / RtLightmapFilter object used by the call
    x,             \* locals of the running execute call
    gtex,          \* GPU: the textures the bridge call was given, by role
    rbuf,          \* GPU: contents of the readback buffer
    map,           \* GPU: state of the readback buffer's mapping
    chan,          \* the mpsc channel the map callback sends its result on
    bl,            \* locals of the running bridge call
    threads,       \* per thread, the execute call it runs on the shared device
    device         \* the OidnDevice values alive and the engine calls on their handle

engineVars == <<devError, relCount, live, allocCount, releaseCount, bufData>>
\* What an execute call never touches.
gpuVars == <<gtex, rbuf, map, chan, bl>>
\* What only the threads and the device's owners touch.
side == <<threads, device>>
outer == <<calls, call, fRel, gpuVars, side>>
vars == <<pc, result, ops, engineVars, rt, x, outer>>


\* ------------------------------------------------------- pixel encodings
\* Buffers of the GPU surface API are kept as sequences of 16-bit words: every
\* offset and length the bridge computes is a multiple of 2 bytes.

\* bytemuck::cast_slice between [u8] and [f32]: an f32 is two 16-bit words,
\* little-endian (low word first).
F32ToBits(f) == <<f[3] % 65536, f[1] * 32768 + f[2] * 128 + (f[3] \div 65536)>>
F32FromBits(lo, hi) == <<hi \div 32768, (hi \div 128) % 256, (hi % 128) * 65536 + lo>>

\* half::f16::from_bits(b).to_f32(): IEEE 754 binary16 widened to binary32.
F16ToF32(b) ==
    LET s == b \div 32768
        e == (b \div 1024) % 32
        m == b % 1024
        p == CHOOSE q \in 0..9 : 2^q <= m /\ m < 2^(q + 1)
    IN  IF e = 0 /\ m = 0 THEN <<s, 0, 0>>
        ELSE IF e = 0 THEN <<s, p + 103, (m - 2^p) * 2^(23 - p)>>
        ELSE IF e = 31 /\ m = 0 THEN <<s, 255, 0>>
        ELSE IF e = 31 THEN <<s, 255, 4194304 + ((m * 8192) % 4194304)>>
        ELSE <<s, e + 112, m * 8192>>

\* half::f16::from_f32(f).to_bits(): binary32 narrowed to binary16, round to
\* nearest, ties to even; overflow to infinity, underflow to zero.
F32ToF16(f) ==
    LET s == f[1] * 32768
        he == f[2] - 112
        man == f[3]
        full == man + 8388608
        sh == 14 - he
        rb == 2^(sh - 1)
        subMan == full \div 2^sh
        subUp == (full \div rb) % 2 = 1 /\ (full % rb # 0 \/ subMan % 2 = 1)
        normUp == (man \div 4096) % 2 = 1 /\ (man % 4096 # 0 \/ (man \div 8192) % 2 = 1)
    IN  IF f[2] = 255 THEN s + 31744 + (IF man = 0 THEN 0 ELSE 512) + (man \div 8192)
        ELSE IF he >= 31 THEN s + 31744
        ELSE IF he <= 0
               THEN IF sh > 24 THEN s
                    ELSE s + subMan + (IF subUp THEN 1 ELSE 0)
        ELSE s + he * 1024 + (man \div 8192) + (IF normUp THEN 1 ELSE 0)

\* DenoiseTextureFormat and bytes_per_pixel (lines 25-30).
Formats == {"Rgba32Float", "Rgba16Float"}
BytesPerPixel(fmt) == IF fmt = "Rgba32Float" THEN 16 ELSE 8
\* 16-bit words per texel.
TexelWords(fmt) == BytesPerPixel(fmt) \div 2

\* wgpu::COPY_BYTES_PER_ROW_ALIGNMENT.
Alignment == 256

\* Lines 108-110, 354-356, 446-448.
BytesPerRow(w, fmt) == w * BytesPerPixel(fmt)
PaddedBytesPerRow_NoMinusOne(w, fmt) == ((BytesPerRow(w, fmt) + Alignment) \div Alignment) * Alignment
PaddedBytesPerRow(w, fmt) == ((BytesPerRow(w, fmt) + Alignment - 1) \div Alignment) * Alignment

\* A float as the words of one channel in format fmt, and back.
ChannelWords(fmt, f) == IF fmt = "Rgba32Float" THEN F32ToBits(f) ELSE <<F32ToF16(f)>>

\* let floats: &[f32] = cast_slice(raw) (0-based index j).
FloatAt(raw, j) == F32FromBits(raw[2 * j + 1], raw[2 * j + 2])

\* Lines 160-170, 175-180 / 402-411, 416-421: the RGB of pixel i is taken from
\* elements 4i, 4i+1, 4i+2 of the mapped buffer.
DecodeColor_Bgr(raw, fmt, n_pixels) ==
    [q \in 1..(n_pixels * 3) |->
        LET i == (q - 1) \div 3
            k == 2 - ((q - 1) % 3)
        IN  IF fmt = "Rgba32Float" THEN FloatAt(raw, i * 4 + k)
            ELSE F16ToF32(raw[i * 4 + k + 1])]
DecodeColor(raw, fmt, n_pixels) ==
    [q \in 1..(n_pixels * 3) |->
        LET i == (q - 1) \div 3
            k == (q - 1) % 3
        IN  IF fmt = "Rgba32Float" THEN FloatAt(raw, i * 4 + k)
            ELSE F16ToF32(raw[i * 4 + k + 1])]

\* Lines 171, 181-185 / 412, 422-426: .iter().skip(3).step_by(4) over the whole
\* mapped buffer.
DecodeAlpha(raw, fmt) ==
    IF fmt = "Rgba32Float"
      THEN [m \in 1..((Len(raw) \div 2) \div 4) |-> FloatAt(raw, 3 + 4 * (m - 1))]
      ELSE [m \in 1..(Len(raw) \div 4) |-> F16ToF32(raw[3 + 4 * (m - 1) + 1])]

\* alpha_f32.get(i).copied().unwrap_or(1.0) (0-based i).
AlphaAt_DefaultZero(alpha, i) == IF i + 1 <= Len(alpha) THEN alpha[i + 1] ELSE F32Zero
AlphaAt(alpha, i) == IF i + 1 <= Len(alpha) THEN alpha[i + 1] ELSE F32One

\* Lines 204-225 / 449-470: interleave RGB and alpha into tightly packed pixels.
Encode(color, alpha, fmt, n_pixels) ==
    LET tw == TexelWords(fmt)
        cw == tw \div 4
    IN  [q \in 1..(n_pixels * tw) |->
            LET i == (q - 1) \div tw
                k == ((q - 1) % tw) \div cw
                part == ((q - 1) % cw) + 1
                val == IF k < 3 THEN color[i * 3 + k + 1] ELSE AlphaAt(alpha, i)
            IN  ChannelWords(fmt, val)[part]]

\* Lines 228-234 / 471-477: rows copied to the padded stride, the rest zero.
Pack_FirstRowOnly(output_bytes, w, h, fmt) ==
    LET rowWords == PaddedBytesPerRow(w, fmt) \div 2
        tightWords == BytesPerRow(w, fmt) \div 2
    IN  [q \in 1..(rowWords * h) |->
            IF (q - 1) % rowWords < tightWords THEN output_bytes[((q - 1) % rowWords) + 1] ELSE 0]
Pack(output_bytes, w, h, fmt) ==
    LET rowWords == PaddedBytesPerRow(w, fmt) \div 2
        tightWords == BytesPerRow(w, fmt) \div 2
    IN  [q \in 1..(rowWords * h) |->
            LET row == (q - 1) \div rowWords
                off == (q - 1) % rowWords
            IN  IF off < tightWords THEN output_bytes[row * tightWords + off + 1] ELSE 0]

\* ------------------------------------------------------- GPU surface API
\* A texture: its size, array layers, format and texels (row-major, each the
\* words of one pixel).
\* copy_texture_to_buffer into a zero-initialised buffer of rows of
\* paddedBytes: only texel bytes are written.
CopyTextureToBuffer(tex, paddedBytes) ==
    LET rowWords == paddedBytes \div 2
        tw == TexelWords(tex.fmt)
    IN  [q \in 1..(rowWords * tex.h) |->
            LET row == (q - 1) \div rowWords
                off == (q - 1) % rowWords
            IN  IF off < tex.w * tw THEN tex.data[row * tex.w + (off \div tw) + 1][(off % tw) + 1]
                ELSE 0]

\* copy_buffer_to_texture of an extent of w by h texels at the origin of tex:
\* texel (row, col) is read at row*paddedBytes + col*bpp; texels outside the
\* extent keep their value.
CopyBufferToTexture(buf, tex, w, h, paddedBytes) ==
    LET rowWords == paddedBytes \div 2
        tw == TexelWords(tex.fmt)
    IN  [p \in 1..(tex.w * tex.h) |->
            LET row == (p - 1) \div tex.w
                col == (p - 1) % tex.w
            IN  IF col < w /\ row < h
                  THEN [k \in 1..tw |-> buf[row * rowWords + col * tw + k]]
                  ELSE tex.data[p]]

\* ------------------------------------------------------------------ engine
\* Engine memory that no one has written yet.
Uninit == <<9, 9, 9>>

\* The engine keeps the first unqueried error: a later one does not replace it.
Raise(e) == IF devError = NoError THEN e ELSE devError

\* OidnDevice::take_error: the pending error as Some(Error::OidnError), or None.
TakeErrorOf_NoMessage(slot) == IF slot.code = 0 THEN None ELSE Some(OidnError(slot.code, ""))
TakeErrorOf(slot) == IF slot.code = 0 THEN None ELSE Some(OidnError(slot.code, slot.message))
TakeError == TakeErrorOf(devError)

\* .unwrap_or(dflt) on an Option<Error>.
UnwrapOr(opt, dflt) == IF opt.some THEN opt.v ELSE dflt

\* What oidnNewBuffer can answer: a fresh handle, null, or null with an error set.
AllocOutcomes == {"ok", "null", "null_err"}
\* The error the engine raises when oidnNewFilter rejects the filter type.
FilterTypeError == [code |-> 2, message |-> "unknown filter type"]
OomError == [code |-> 4, message |-> "out of memory"]
FreshHandle == Len(relCount) + 1

\* relCount after oidnReleaseBuffer on each handle of hs, in order.
ReleaseAll(rc, hs) ==
    [h \in DOMAIN rc |-> rc[h] + Cardinality({i \in DOMAIN hs : hs[i] = h})]
Range(s) == {s[i] : i \in DOMAIN s}
ReleaseLog(hs) == [i \in DOMAIN hs |-> Op("release", hs[i], "")]
FreeData(bd, hs) == [h \in DOMAIN bd |-> IF h \in Range(hs) THEN <<>> ELSE bd[h]]

\* The engine's denoising kernel is opaque: it copies or smooths the input.
Kernels == {"copy", "smooth"}
Denoise(k, in) == IF k = "copy" THEN in ELSE Fill(Len(in), F32Quarter)

\* Values an engine-to-host read can deliver for memory never written.
Garbage == {F32Zero, F32One}
ReadBack(data, g) == [i \in DOMAIN data |-> IF data[i] = Uninit THEN g ELSE data[i]]

\* ------------------------------------------------------------- filter objects
F32NaN == <<0, 255, 4194304>>
NoSlots == [color |-> Null, output |-> Null, albedo |-> Null, normal |-> Null]
NoFilter ==
    [kind |-> "none", raw |-> Null, width |-> 0, height |-> 0, hdr |-> TRUE,
     srgb |-> FALSE, clean_aux |-> FALSE, input_scale |-> F32NaN,
     quality |-> "Default", directional |-> FALSE, slots |-> NoSlots]

\* Locals of execute_with_aux / RtLightmapFilter::execute.
NoSlice == [some |-> FALSE, v |-> <<>>]
X0 ==
    [n |-> 0, color |-> NoSlice, output |-> <<>>, albedo |-> NoSlice, normal |-> NoSlice,
     color_buf |-> None, out_buf |-> Null, albedo_buf |-> None, normal_buf |-> None,
     res |-> NoResult, active |-> FALSE]

DirectKinds == {"execute_with_aux", "lightmap_execute"}
NoCall == [kind |-> "none"]

\* Buffers this execute call allocated and has not released.
CallLive == live \cap ({x.out_buf} \cup {b.v : b \in {c \in {x.color_buf, x.albedo_buf, x.normal_buf} : c.some}})

\* ---------------------------------------------------- RtFilter::execute_with_aux
\* Lines 190-203: dimensions set and slice lengths agree with width*height*3.
ExecArgsValid_NoColorCheck(f, output, color) ==
    /\ f.width # 0 /\ f.height # 0
    /\ Len(output) = f.width * f.height * 3
ExecArgsValid(f, output, color) ==
    /\ f.width # 0 /\ f.height # 0
    /\ Len(output) = f.width * f.height * 3
    /\ (color.some => Len(color.v) = f.width * f.height * 3)

\* The execute call returns res to the caller (a top-level caller, or the bridge).
ExecReturn(res) ==
    /\ x' = [x EXCEPT !.res = res, !.active = FALSE]
    /\ IF call.kind \in DirectKinds
         THEN /\ pc' = "done"
              /\ result' = res
         ELSE /\ pc' = "b_after_execute"
              /\ UNCHANGED result

XEntry ==
    /\ pc = "x_entry"
    /\ IF ExecArgsValid(rt, x.output, x.color)
         THEN /\ pc' = IF x.color.some THEN "x_alloc_color" ELSE "x_alloc_out"
              /\ x' = [x EXCEPT !.n = rt.width * rt.height * 3]
              /\ UNCHANGED result
         ELSE ExecReturn(ErrInvalidDimensions)
    /\ UNCHANGED <<outer, ops, engineVars, rt>>

\* oidnNewBuffer answering o, then (when not null) oidnWriteBuffer of data, or no
\* write when data is None.  The engine part of the state after it.
NewBufferEffect(o, data) ==
    /\ devError' = IF o = "null_err" THEN Raise(OomError) ELSE devError
    /\ IF o = "ok"
         THEN /\ relCount' = Append(relCount, 0)
              /\ live' = live \cup {FreshHandle}
              /\ allocCount' = allocCount + 1
              /\ bufData' = Append(bufData, IF data.some THEN data.v ELSE Fill(x.n, Uninit))
              /\ ops' = ops \o <<Op("alloc", FreshHandle, NoError)>>
                            \o (IF data.some THEN <<Op("write", FreshHandle, "")>> ELSE <<>>)
         ELSE /\ UNCHANGED <<relCount, live, allocCount, bufData>>
              /\ ops' = ops \o <<Op("alloc", Null, IF o = "null_err" THEN OomError ELSE NoError)>>
    /\ UNCHANGED releaseCount

\* oidnReleaseBuffer on each handle of hs, in order.
ReleaseEffect(hs) ==
    /\ relCount' = ReleaseAll(relCount, hs)
    /\ live' = live \ Range(hs)
    /\ releaseCount' = releaseCount + Len(hs)
    /\ bufData' = FreeData(bufData, hs)
    /\ ops' = ops \o ReleaseLog(hs)
    /\ UNCHANGED <<devError, allocCount>>

\* Lines 206-217.
XAllocColor ==
    /\ pc = "x_alloc_color"
    /\ \E o \in AllocOutcomes :
        /\ NewBufferEffect(o, x.color)
        /\ IF o = "ok"
             THEN /\ x' = [x EXCEPT !.color_buf = Some(FreshHandle)]
                  /\ pc' = "x_alloc_out"
             ELSE /\ pc' = "x_fail_take"
                  /\ UNCHANGED x
    /\ UNCHANGED <<outer, result, rt>>

\* Lines 220-222: what is released when the output allocation fails.
OutNullReleases_Leak(xx) == <<>>
OutNullReleases(xx) == IF xx.color_buf.some THEN <<xx.color_buf.v>> ELSE <<>>

\* Lines 218-234.
XAllocOut ==
    /\ pc = "x_alloc_out"
    /\ \E o \in AllocOutcomes :
        IF o = "ok"
          THEN /\ NewBufferEffect(o, IF x.color.some THEN NoSlice ELSE Some(x.output))
               /\ x' = [x EXCEPT !.out_buf = FreshHandle]
               /\ pc' = "x_check_aux"
          ELSE /\ devError' = IF o = "null_err" THEN Raise(OomError) ELSE devError
               /\ relCount' = ReleaseAll(relCount, OutNullReleases(x))
               /\ live' = live \ Range(OutNullReleases(x))
               /\ releaseCount' = releaseCount + Len(OutNullReleases(x))
               /\ bufData' = FreeData(bufData, OutNullReleases(x))
               /\ ops' = ops \o <<Op("alloc", Null, IF o = "null_err" THEN OomError ELSE NoError)>>
                             \o ReleaseLog(OutNullReleases(x))
               /\ pc' = "x_fail_take"
               /\ UNCHANGED <<allocCount, x>>
    /\ UNCHANGED <<outer, result, rt>>

\* Lines 209, 223, 287: Err(take_error().unwrap_or(OutOfMemory)).
XFailTake ==
    /\ pc = "x_fail_take"
    /\ ExecReturn(UnwrapOr(TakeError, ErrOutOfMemory))
    /\ devError' = NoError
    /\ ops' = ops \o <<Op("take_error", Null, devError)>>
    /\ UNCHANGED <<outer, relCount, live, allocCount, releaseCount, bufData, rt>>

\* Lines 237-254: the aux slices have the image's length.
AuxLengthsValid_BothOrNone(xx) ==
    /\ (xx.albedo.some => Len(xx.albedo.v) = xx.n)
    /\ (xx.normal.some => Len(xx.normal.v) = xx.n)
    /\ (xx.albedo.some <=> xx.normal.some)
AuxLengthsValid(xx) ==
    /\ (xx.albedo.some => Len(xx.albedo.v) = xx.n)
    /\ (xx.normal.some => Len(xx.normal.v) = xx.n)

\* Lines 239-242, 248-251: released before InvalidDimensions is returned.
AuxInvalidReleases(xx) ==
    (IF xx.color_buf.some THEN <<xx.color_buf.v>> ELSE <<>>) \o <<xx.out_buf>>

XCheckAux ==
    /\ pc = "x_check_aux"
    /\ IF AuxLengthsValid(x)
         THEN /\ pc' = IF x.albedo.some THEN "x_alloc_albedo"
                       ELSE IF x.normal.some THEN "x_alloc_normal" ELSE "x_null_check"
              /\ UNCHANGED <<x, result, engineVars, ops>>
         ELSE /\ ReleaseEffect(AuxInvalidReleases(x))
              /\ ExecReturn(ErrInvalidDimensions)
    /\ UNCHANGED <<outer, rt>>

\* Lines 256-264: albedo.map(|a| { new buffer; write when not null; buf }).
XAllocAlbedo ==
    /\ pc = "x_alloc_albedo"
    /\ \E o \in AllocOutcomes :
        /\ NewBufferEffect(o, x.albedo)
        /\ x' = [x EXCEPT !.albedo_buf = Some(IF o = "ok" THEN FreshHandle ELSE Null)]
    /\ pc' = IF x.normal.some THEN "x_alloc_normal" ELSE "x_null_check"
    /\ UNCHANGED <<outer, result, rt>>

\* Lines 265-273.
XAllocNormal_NoAlloc ==
    /\ pc = "x_alloc_normal"
    /\ pc' = "x_null_check"
    /\ UNCHANGED <<outer, result, ops, engineVars, rt, x>>
XAllocNormal ==
    /\ pc = "x_alloc_normal"
    /\ \E o \in AllocOutcomes :
        /\ NewBufferEffect(o, x.normal)
        /\ x' = [x EXCEPT !.normal_buf = Some(IF o = "ok" THEN FreshHandle ELSE Null)]
    /\ pc' = "x_null_check"
    /\ UNCHANGED <<outer, result, rt>>

\* The non-null handles among the optional buffers bs, in order.
NonNull(bs) == SelectSeq(bs, LAMBDA b : b # Null)
Handles(opts) ==
    LET pick(o) == IF o.some THEN <<o.v>> ELSE <<>>
    IN  pick(opts[1]) \o (IF Len(opts) > 1 THEN pick(opts[2]) ELSE <<>>)

\* Lines 278-286: released when an aux allocation returned null.
AuxNullReleases(xx) ==
    (IF xx.color_buf.some THEN <<xx.color_buf.v>> ELSE <<>>) \o <<xx.out_buf>>
        \o NonNull(Handles(<<xx.albedo_buf, xx.normal_buf>>))

\* Lines 275-288.
XNullCheck ==
    /\ pc = "x_null_check"
    /\ IF (x.albedo_buf.some /\ x.albedo_buf.v = Null)
           \/ (x.normal_buf.some /\ x.normal_buf.v = Null)
         THEN /\ ReleaseEffect(AuxNullReleases(x))
              /\ pc' = "x_fail_take"
         ELSE /\ pc' = "x_configure"
              /\ UNCHANGED <<engineVars, ops>>
    /\ UNCHANGED <<outer, result, rt, x>>

\* Lines 354-358: the scalar parameters set before each commit.
ScalarSets_NoQuality ==
    <<Op("set", Null, "hdr"), Op("set", Null, "srgb"),
      Op("set", Null, "cleanAux"), Op("set", Null, "inputScale")>>
ScalarSets ==
    <<Op("set", Null, "hdr"), Op("set", Null, "srgb"),
      Op("set", Null, "cleanAux"), Op("set", Null, "inputScale"),
      Op("set", Null, "quality")>>

\* Lines 290-358: bind the image slots, set the five scalar parameters.
XConfigure ==
    /\ pc = "x_configure"
    /\ LET color_ptr == IF x.color_buf.some THEN x.color_buf.v ELSE x.out_buf
           bindA == x.albedo_buf.some /\ x.albedo_buf.v # Null
           bindN == x.normal_buf.some /\ x.normal_buf.v # Null
       IN  /\ rt' = [rt EXCEPT !.slots =
                        [color |-> color_ptr, output |-> x.out_buf,
                         albedo |-> IF bindA THEN x.albedo_buf.v ELSE rt.slots.albedo,
                         normal |-> IF bindN THEN x.normal_buf.v ELSE rt.slots.normal]]
           /\ ops' = ops \o <<Op("bind", color_ptr, "color"), Op("bind", x.out_buf, "output")>>
                         \o (IF bindA THEN <<Op("bind", x.albedo_buf.v, "albedo")>> ELSE <<>>)
                         \o (IF bindN THEN <<Op("bind", x.normal_buf.v, "normal")>> ELSE <<>>)
                         \o ScalarSets
    /\ pc' = "x_commit"
    /\ UNCHANGED <<outer, result, engineVars, x>>

\* Line 360: oidnCommitFilter; the engine may record an error.
XCommit ==
    /\ pc = "x_commit"
    /\ \E e \in {NoError} \cup EngineErrors :
        /\ devError' = IF e = NoError THEN devError ELSE Raise(e)
        /\ ops' = ops \o <<Op("commit", rt.raw, e)>>
    /\ pc' = "x_execute"
    /\ UNCHANGED <<outer, result, relCount, live, allocCount, releaseCount, bufData, rt, x>>

\* Where control goes after oidnExecuteFilter (line 365: self.device.sync()).
AfterExecute_NoSync == "x_rel_aux"
AfterExecute == "x_sync"

\* Line 361: oidnExecuteFilter.  It reports nothing; an error goes to the
\* device's slot.  On success the output image holds the denoised input.
XExecute ==
    /\ pc = "x_execute"
    /\ \E e \in {NoError} \cup EngineErrors, k \in Kernels, wr \in BOOLEAN :
        /\ e = NoError => wr
        /\ devError' = IF e = NoError THEN devError ELSE Raise(e)
        /\ bufData' = IF wr
                        THEN [bufData EXCEPT ![rt.slots.output] = Denoise(k, bufData[rt.slots.color])]
                        ELSE bufData
        /\ ops' = ops \o <<Op("execute", rt.raw, e)>>
    /\ pc' = AfterExecute
    /\ UNCHANGED <<outer, result, relCount, live, allocCount, releaseCount, rt, x>>

\* Line 365 / OidnDevice::sync: wait for the engine's asynchronous work.
XSync ==
    /\ pc = "x_sync"
    /\ ops' = ops \o <<Op("sync", Null, devError)>>
    /\ pc' = "x_rel_aux"
    /\ UNCHANGED <<outer, result, engineVars, rt, x>>

\* Lines 367-376.
PostSyncReleases_WithOutput(xx) ==
    NonNull(Handles(<<xx.albedo_buf, xx.normal_buf>>)) \o <<xx.out_buf>>
PostSyncReleases(xx) == NonNull(Handles(<<xx.albedo_buf, xx.normal_buf>>))

XReleaseAux ==
    /\ pc = "x_rel_aux"
    /\ ReleaseEffect(PostSyncReleases(x))
    /\ pc' = "x_read"
    /\ UNCHANGED <<outer, result, rt, x>>

\* Lines 378-385: oidnReadBuffer(out_buf) into the caller's output slice.
XRead ==
    /\ pc = "x_read"
    /\ \E g \in Garbage :
        /\ (\A i \in DOMAIN bufData[x.out_buf] : bufData[x.out_buf][i] # Uninit) => g = F32Zero
        /\ x' = [x EXCEPT !.output = ReadBack(bufData[x.out_buf], g)]
    /\ ops' = ops \o <<Op("read", x.out_buf, "")>>
    /\ pc' = "x_rel_final"
    /\ UNCHANGED <<outer, result, engineVars, rt>>

\* Lines 387-390.
FinalReleases_Leak(xx) == <<xx.out_buf>>
FinalReleases(xx) ==
    (IF xx.color_buf.some THEN <<xx.color_buf.v>> ELSE <<>>) \o <<xx.out_buf>>

XReleaseFinal ==
    /\ pc = "x_rel_final"
    /\ ReleaseEffect(FinalReleases(x))
    /\ pc' = "x_take_final"
    /\ UNCHANGED <<outer, result, rt, x>>

\* Lines 392-395: if let Some(e) = take_error() { return Err(e) }; Ok(()).
XTakeFinal_NoQuery ==
    /\ pc = "x_take_final"
    /\ ExecReturn(Ok)
    /\ UNCHANGED <<outer, ops, engineVars, rt>>
XTakeFinal ==
    /\ pc = "x_take_final"
    /\ ExecReturn(UnwrapOr(TakeError, Ok))
    /\ devError' = NoError
    /\ ops' = ops \o <<Op("take_error", Null, devError)>>
    /\ UNCHANGED <<outer, relCount, live, allocCount, releaseCount, bufData, rt>>

ExecuteWithAuxStep ==
    \/ XEntry \/ XAllocColor \/ XAllocOut \/ XFailTake \/ XCheckAux
    \/ XAllocAlbedo \/ XAllocNormal \/ XNullCheck \/ XConfigure \/ XCommit
    \/ XExecute \/ XSync \/ XReleaseAux \/ XRead \/ XReleaseFinal \/ XTakeFinal

\* Lines 163-175: execute_in_place / execute_in_place_with_aux pass no color
\* slice, so the color buffer of lines 206-217 is never allocated.
ExecuteInPlaceStep ==
    \/ XEntry \/ XAllocOut \/ XFailTake \/ XCheckAux
    \/ XAllocAlbedo \/ XAllocNormal \/ XNullCheck \/ XConfigure \/ XCommit
    \/ XExecute \/ XSync \/ XReleaseAux \/ XRead \/ XReleaseFinal \/ XTakeFinal


\* ------------------------------------------------- RtLightmapFilter::execute
\* Lines 505-518.
LEntry ==
    /\ pc = "l_entry"
    /\ IF ExecArgsValid(rt, x.output, x.color)
         THEN /\ pc' = IF x.color.some THEN "l_alloc_color" ELSE "l_alloc_out"
              /\ x' = [x EXCEPT !.n = rt.width * rt.height * 3]
              /\ UNCHANGED result
         ELSE ExecReturn(ErrInvalidDimensions)
    /\ UNCHANGED <<outer, ops, engineVars, rt>>

\* Lines 521-532.
LAllocColor ==
    /\ pc = "l_alloc_color"
    /\ \E o \in AllocOutcomes :
        /\ NewBufferEffect(o, x.color)
        /\ IF o = "ok"
             THEN /\ x' = [x EXCEPT !.color_buf = Some(FreshHandle)]
                  /\ pc' = "l_alloc_out"
             ELSE /\ pc' = "l_fail_take"
                  /\ UNCHANGED x
    /\ UNCHANGED <<outer, result, rt>>

\* Lines 535-537.
LOutNullReleases(xx) == IF xx.color_buf.some THEN <<xx.color_buf.v>> ELSE <<>>

\* Lines 533-549.
LAllocOut ==
    /\ pc = "l_alloc_out"
    /\ \E o \in AllocOutcomes :
        IF o = "ok"
          THEN /\ NewBufferEffect(o, IF x.color.some THEN NoSlice ELSE Some(x.output))
               /\ x' = [x EXCEPT !.out_buf = FreshHandle]
               /\ pc' = "l_configure"
          ELSE /\ devError' = IF o = "null_err" THEN Raise(OomError) ELSE devError
               /\ relCount' = ReleaseAll(relCount, LOutNullReleases(x))
               /\ live' = live \ Range(LOutNullReleases(x))
               /\ releaseCount' = releaseCount + Len(LOutNullReleases(x))
               /\ bufData' = FreeData(bufData, LOutNullReleases(x))
               /\ ops' = ops \o <<Op("alloc", Null, IF o = "null_err" THEN OomError ELSE NoError)>>
                             \o ReleaseLog(LOutNullReleases(x))
               /\ pc' = "l_fail_take"
               /\ UNCHANGED <<allocCount, x>>
    /\ UNCHANGED <<outer, result, rt>>

\* Lines 524, 538.
LFailTake ==
    /\ pc = "l_fail_take"
    /\ ExecReturn(UnwrapOr(TakeError, ErrOutOfMemory))
    /\ devError' = NoError
    /\ ops' = ops \o <<Op("take_error", Null, devError)>>
    /\ UNCHANGED <<outer, relCount, live, allocCount, releaseCount, bufData, rt>>

\* Lines 551-578: bind color and output, set "directional".
LConfigure ==
    /\ pc = "l_configure"
    /\ LET color_ptr == IF x.color_buf.some THEN x.color_buf.v ELSE x.out_buf
       IN  /\ rt' = [rt EXCEPT !.slots.color = color_ptr, !.slots.output = x.out_buf]
           /\ ops' = ops \o <<Op("bind", color_ptr, "color"), Op("bind", x.out_buf, "output"),
                              Op("set", Null, "directional")>>
    /\ pc' = "l_commit"
    /\ UNCHANGED <<outer, result, engineVars, x>>

\* Line 579.
LCommit ==
    /\ pc = "l_commit"
    /\ \E e \in {NoError} \cup EngineErrors :
        /\ devError' = IF e = NoError THEN devError ELSE Raise(e)
        /\ ops' = ops \o <<Op("commit", rt.raw, e)>>
    /\ pc' = "l_execute"
    /\ UNCHANGED <<outer, result, relCount, live, allocCount, releaseCount, bufData, rt, x>>

\* Where control goes after oidnExecuteFilter (line 582: self.device.sync()).
LAfterExecute == "l_sync"

\* Line 580.
LExecute ==
    /\ pc = "l_execute"
    /\ \E e \in {NoError} \cup EngineErrors, k \in Kernels, wr \in BOOLEAN :
        /\ e = NoError => wr
        /\ devError' = IF e = NoError THEN devError ELSE Raise(e)
        /\ bufData' = IF wr
                        THEN [bufData EXCEPT ![rt.slots.output] = Denoise(k, bufData[rt.slots.color])]
                        ELSE bufData
        /\ ops' = ops \o <<Op("execute", rt.raw, e)>>
    /\ pc' = LAfterExecute
    /\ UNCHANGED <<outer, result, relCount, live, allocCount, releaseCount, rt, x>>

\* Line 582.
LSync ==
    /\ pc = "l_sync"
    /\ ops' = ops \o <<Op("sync", Null, devError)>>
    /\ pc' = "l_read"
    /\ UNCHANGED <<outer, result, engineVars, rt, x>>

\* Lines 583-590.
LRead ==
    /\ pc = "l_read"
    /\ \E g \in Garbage :
        /\ (\A i \in DOMAIN bufData[x.out_buf] : bufData[x.out_buf][i] # Uninit) => g = F32Zero
        /\ x' = [x EXCEPT !.output = ReadBack(bufData[x.out_buf], g)]
    /\ ops' = ops \o <<Op("read", x.out_buf, "")>>
    /\ pc' = "l_release"
    /\ UNCHANGED <<outer, result, engineVars, rt>>

\* Lines 591-594.
LFinalReleases(xx) ==
    (IF xx.color_buf.some THEN <<xx.color_buf.v>> ELSE <<>>) \o <<xx.out_buf>>

LRelease ==
    /\ pc = "l_release"
    /\ ReleaseEffect(LFinalReleases(x))
    /\ pc' = "l_take_final"
    /\ UNCHANGED <<outer, result, rt, x>>

\* Lines 595-598.
LTakeFinal ==
    /\ pc = "l_take_final"
    /\ ExecReturn(UnwrapOr(TakeError, Ok))
    /\ devError' = NoError
    /\ ops' = ops \o <<Op("take_error", Null, devError)>>
    /\ UNCHANGED <<outer, relCount, live, allocCount, releaseCount, bufData, rt>>

LightmapExecuteStep ==
    \/ LEntry \/ LAllocColor \/ LAllocOut \/ LFailTake \/ LConfigure \/ LCommit
    \/ LExecute \/ LSync \/ LRead \/ LRelease \/ LTakeFinal


\* ---------------------------------------------------------- textures
Roles == {"input", "output", "albedo", "normal"}
NoTexture == [w |-> 0, h |-> 0, layers |-> 0, fmt |-> "Rgba32Float", data |-> <<>>]
NoTextures == [r \in Roles |-> NoTexture]

\* The float in channel k (0..3) of pixel p (1..) of a test image.  "flat" is
\* (0.5, 0.5, 0.5, 1.0) everywhere; "ramp" gives every channel of every pixel a
\* different value 1 + j/1024, exact in both encodings.
\* "edge" cycles through values at the edges of binary16 (-0, infinity, the
\* smallest and largest subnormal, the largest finite value, -infinity, a
\* fraction with a full mantissa), all exact in both encodings; "wide" through
\* values only binary32 can hold.
EdgeFloats ==
    <<(<<1, 0, 0>>), (<<0, 255, 0>>), (<<0, 103, 0>>), (<<0, 112, 8372224>>),
      (<<0, 142, 8380416>>), (<<1, 255, 0>>), (<<0, 125, 2793472>>)>>
WideFloats ==
    <<(<<0, 125, 2796203>>), (<<0, 0, 1>>), (<<0, 254, 8388607>>), (<<1, 1, 5>>),
      (<<0, 143, 0>>)>>
TexFloat(pattern, p, k) ==
    IF pattern = "flat" THEN (IF k = 3 THEN F32One ELSE F32Half)
    ELSE IF pattern = "edge" THEN EdgeFloats[((4 * (p - 1) + k) % Len(EdgeFloats)) + 1]
    ELSE IF pattern = "wide" THEN WideFloats[((4 * (p - 1) + k) % Len(WideFloats)) + 1]
    ELSE <<0, 127, (4 * (p - 1) + k + 1) * 8192>>
Patterns == {"flat", "ramp"}

PixelWords(fmt, pattern, p) ==
    ChannelWords(fmt, TexFloat(pattern, p, 0)) \o ChannelWords(fmt, TexFloat(pattern, p, 1))
        \o ChannelWords(fmt, TexFloat(pattern, p, 2)) \o ChannelWords(fmt, TexFloat(pattern, p, 3))

Texture(w, h, layers, fmt, pattern) ==
    [w |-> w, h |-> h, layers |-> layers, fmt |-> fmt,
     data |-> [p \in 1..(w * h) |-> PixelWords(fmt, pattern, p)]]

\* Locals of denoise_texture / denoise_texture_with_aux.
B0 ==
    [todo |-> <<>>, target |-> "none", decoded |-> "none",
     color_rgb |-> <<>>, alpha |-> <<>>, albedo_rgb |-> NoSlice, normal_rgb |-> NoSlice,
     output_bytes |-> <<>>, upload_data |-> <<>>]

BridgeKinds == {"denoise_texture", "denoise_texture_with_aux"}

\* ------------------------------ denoise_texture / denoise_texture_with_aux
\* Leaving the bridge function with res: the local RtFilter, if one was
\* created, is dropped (Drop for RtFilter: oidnReleaseFilter).
BridgeReturn_NoDrop(res, log) ==
    /\ result' = res
    /\ pc' = "done"
    /\ ops' = ops \o log
    /\ UNCHANGED <<fRel, rt>>
BridgeReturn(res, log) ==
    /\ result' = res
    /\ pc' = "done"
    /\ IF rt.raw # Null
         THEN /\ fRel' = [fRel EXCEPT ![rt.raw] = @ + 1]
              /\ rt' = NoFilter
              /\ ops' = ops \o log \o <<Op("release_filter", rt.raw, "")>>
         ELSE /\ ops' = ops \o log
              /\ UNCHANGED <<fRel, rt>>

\* Lines 94-104 and 282-304: one layer each, and output and aux textures of the
\* input's width and height.
SizeMatches_IgnoreWidth(t, size) ==
    ~ (t.h # size.h \/ t.layers # 1)
SizeMatches(t, size) ==
    ~ (t.w # size.w \/ t.h # size.h \/ t.layers # 1)
SurfacesCompatible_NoNormalCheck(c, tx) ==
    /\ tx["input"].layers = 1
    /\ SizeMatches(tx[c.output], tx["input"])
    /\ (c.albedo => SizeMatches(tx["albedo"], tx["input"]))
SurfacesCompatible(c, tx) ==
    /\ tx["input"].layers = 1
    /\ SizeMatches(tx[c.output], tx["input"])
    /\ (c.albedo => SizeMatches(tx["albedo"], tx["input"]))
    /\ (c.normal => SizeMatches(tx["normal"], tx["input"]))

\* The arguments the function kind receives: denoise_texture (lines 85-93) has
\* no albedo and normal parameters.
ArgsOf(kind, c) ==
    IF kind = "denoise_texture" THEN [c EXCEPT !.albedo = FALSE, !.normal = FALSE] ELSE c

\* The validation and the list of textures to read, as the function kind does
\* them (lines 94-104; lines 282-314).
BValidateAs(kind) ==
    /\ pc = "b_validate"
    /\ LET c == ArgsOf(kind, call)
       IN  IF SurfacesCompatible(c, gtex)
             THEN /\ pc' = "rb_start"
                  /\ bl' = [bl EXCEPT !.todo = <<"input">>
                                        \o (IF c.albedo THEN <<"albedo">> ELSE <<>>)
                                        \o (IF c.normal THEN <<"normal">> ELSE <<>>)]
                  /\ UNCHANGED <<result, ops, fRel, rt>>
             ELSE /\ BridgeReturn(ErrInvalidDimensions, <<>>)
                  /\ UNCHANGED bl
    /\ UNCHANGED <<side, calls, call, engineVars, x, gtex, rbuf, map, chan>>

BValidate == BValidateAs(call.kind)

\* Lines 105-146 / 350-390: create the readback buffer, submit the
\* texture-to-buffer copy, ask for the buffer to be mapped.
RbStart ==
    /\ pc = "rb_start"
    /\ LET t == gtex[Head(bl.todo)]
           padded == PaddedBytesPerRow(t.w, call.format)
       IN  /\ rbuf' = CopyTextureToBuffer(t, padded)
           /\ ops' = ops \o <<Op("create_buffer", padded * t.h, Head(bl.todo)),
                              Op("copy_texture_to_buffer", padded, Head(bl.todo)),
                              Op("submit", Null, ""),
                              Op("map_async", Null, Head(bl.todo))>>
    /\ bl' = [bl EXCEPT !.target = Head(bl.todo), !.todo = Tail(bl.todo), !.decoded = "none"]
    /\ map' = "pending"
    /\ chan' = "empty"
    /\ pc' = "rb_poll"
    /\ UNCHANGED <<side, calls, call, result, engineVars, fRel, rt, x, gtex>>

\* Lines 148 / 392: wgpu_device.poll.  The GPU may complete the mapping and run
\* the callback (which sends its result), drop the callback, or not be done yet.
RbPoll ==
    /\ pc = "rb_poll"
    /\ \E o \in {"ok", "err", "dropped", "pending"} :
        /\ map' = IF map # "pending" THEN map
                  ELSE IF o = "ok" THEN "mapped"
                  ELSE IF o = "err" THEN "failed"
                  ELSE IF o = "dropped" THEN "dropped" ELSE "pending"
        /\ chan' = IF map # "pending" THEN chan
                   ELSE IF o = "ok" THEN "ok"
                   ELSE IF o = "err" THEN "err"
                   ELSE IF o = "dropped" THEN "closed" ELSE "empty"
    /\ pc' = "rb_try_recv"
    /\ UNCHANGED <<side, calls, call, result, ops, engineVars, fRel, rt, x, gtex, rbuf, bl>>

\* Lines 149-154 / 393-398: what the loop does with rx.try_recv()'s answer.
RecvOutcome_ErrBreaks(c) ==
    IF c \in {"ok", "err"} THEN "break" ELSE IF c = "closed" THEN "fail" ELSE "sleep"
RecvOutcome_EmptyBreaks(c) ==
    IF c \in {"ok", "empty"} THEN "break" ELSE "fail"
RecvOutcome_ClosedSleeps(c) ==
    IF c = "ok" THEN "break"
    ELSE IF c = "err" THEN "fail"
    ELSE "sleep"
RecvOutcome(c) ==
    IF c = "ok" THEN "break"
    ELSE IF c = "err" THEN "fail"
    ELSE IF c = "closed" THEN "fail"
    ELSE "sleep"

RbTryRecv ==
    /\ pc = "rb_try_recv"
    /\ IF RecvOutcome(chan) = "fail"
         THEN BridgeReturn(ErrBufferMapFailed, <<>>)
         ELSE /\ pc' = IF RecvOutcome(chan) = "break" THEN "rb_decode" ELSE "rb_poll"
              /\ UNCHANGED <<result, ops, fRel, rt>>
    /\ chan' = IF chan \in {"ok", "err"} THEN "closed" ELSE chan
    /\ UNCHANGED <<side, calls, call, engineVars, x, gtex, rbuf, map, bl>>

\* Lines 157-189 / 400-430: get_mapped_range, split into RGB and alpha, unmap.
RbDecode ==
    /\ pc = "rb_decode"
    /\ LET t == gtex[bl.target]
           rgb == DecodeColor(rbuf, call.format, t.w * t.h)
       IN  bl' = IF bl.target = "input"
                  THEN [bl EXCEPT !.color_rgb = rgb, !.alpha = DecodeAlpha(rbuf, call.format),
                                 !.decoded = bl.target]
                  ELSE IF bl.target = "albedo"
                  THEN [bl EXCEPT !.albedo_rgb = Some(rgb), !.decoded = bl.target]
                  ELSE [bl EXCEPT !.normal_rgb = Some(rgb), !.decoded = bl.target]
    /\ ops' = ops \o <<Op("get_mapped_range", Null, map)>>
    /\ pc' = IF bl.todo # <<>> THEN "rb_start" ELSE "b_new_filter"
    /\ UNCHANGED <<side, calls, call, result, engineVars, fRel, rt, x, gtex, rbuf, map, chan>>

\* Lines 192-200 / 316-324: RtFilter::new(device)?, then the setters.
BNewFilter ==
    /\ pc = "b_new_filter"
    /\ \E o \in {"ok", "null", "null_err"} :
        IF o = "ok"
          THEN /\ fRel' = Append(fRel, 0)
               /\ rt' = [NoFilter EXCEPT !.kind = "RT", !.raw = Len(fRel) + 1,
                                         !.width = gtex["input"].w, !.height = gtex["input"].h,
                                         !.hdr = call.options.hdr, !.srgb = call.options.srgb,
                                         !.quality = call.options.quality,
                                         !.input_scale = IF call.options.input_scale.some
                                                           THEN call.options.input_scale.v
                                                           ELSE F32NaN]
               /\ ops' = ops \o <<Op("new_filter", Len(fRel) + 1, "RT")>>
               /\ x' = [X0 EXCEPT !.output = bl.color_rgb, !.albedo = bl.albedo_rgb,
                                  !.normal = bl.normal_rgb, !.active = TRUE]
               /\ pc' = "x_entry"
               /\ UNCHANGED <<devError, result>>
          ELSE /\ BridgeReturn(UnwrapOr(TakeErrorOf(IF o = "null_err" THEN Raise(FilterTypeError)
                                                      ELSE devError),
                                          ErrFilterCreationFailed),
                               <<Op("new_filter", Null, "RT"), Op("take_error", Null, "")>>)
               /\ devError' = NoError
               /\ UNCHANGED x
    /\ UNCHANGED <<side, calls, call, relCount, live, allocCount, releaseCount, bufData, gpuVars>>

\* Lines 201 / 325-329: filter.execute_in_place(&mut color)?.
BAfterExecute ==
    /\ pc = "b_after_execute"
    /\ IF IsErr(x.res)
         THEN /\ BridgeReturn(x.res, <<>>)
              /\ UNCHANGED bl
         ELSE /\ bl' = [bl EXCEPT !.color_rgb = x.output]
              /\ pc' = "b_encode"
              /\ UNCHANGED <<result, ops, fRel, rt>>
    /\ UNCHANGED <<side, calls, call, engineVars, x, gtex, rbuf, map, chan>>

\* Lines 204-234 / 444-477: interleave RGB with the kept alpha, pad the rows.
BEncode ==
    /\ pc = "b_encode"
    /\ LET w == gtex["input"].w
           h == gtex["input"].h
           bytes == Encode(bl.color_rgb, bl.alpha, call.format, w * h)
       IN  bl' = [bl EXCEPT !.output_bytes = bytes,
                          !.upload_data = Pack(bytes, w, h, call.format)]
    /\ pc' = "b_upload"
    /\ UNCHANGED <<side, calls, call, result, ops, engineVars, fRel, rt, x, gtex, rbuf, map, chan>>

\* Lines 235-261 / 478-503: create the upload buffer, submit the
\* buffer-to-texture copy, return Ok(()).
\* The extent of the upload copy: denoise_texture passes the input's size
\* (lines 94, 257), upload_rgba_to_texture the output's (lines 478, 500).
UploadExtent(kind, c, tx) ==
    IF kind = "denoise_texture" THEN tx["input"] ELSE tx[c.output]

\* Lines 235-259 / 479-502: the GPU calls of the upload.
UploadOps_Twice(bytes, layout, target) ==
    <<Op("create_buffer_init", bytes, ""),
      Op("copy_buffer_to_texture", layout, target), Op("submit", Null, ""),
      Op("copy_buffer_to_texture", layout, target), Op("submit", Null, "")>>
UploadOps(bytes, layout, target) ==
    <<Op("create_buffer_init", bytes, ""),
      Op("copy_buffer_to_texture", layout, target), Op("submit", Null, "")>>

BUploadAs(kind) ==
    /\ pc = "b_upload"
    /\ LET t == gtex[call.output]
           size == UploadExtent(kind, call, gtex)
           padded == PaddedBytesPerRow(gtex["input"].w, call.format)
       IN  /\ gtex' = [gtex EXCEPT ![call.output].data =
                         CopyBufferToTexture(bl.upload_data, t, size.w, size.h, padded)]
           /\ BridgeReturn(Ok, UploadOps(Len(bl.upload_data) * 2, <<padded, size.w, size.h>>,
                                         call.output))
    /\ UNCHANGED <<side, calls, call, engineVars, x, rbuf, map, chan, bl>>

BUpload == BUploadAs(call.kind)

\* DenoiseOptions the caller may pass (default, and a fast LDR preview).
OptionSets ==
    { [quality |-> "Default", hdr |-> TRUE, srgb |-> FALSE, input_scale |-> None],
      [quality |-> "Fast", hdr |-> FALSE, srgb |-> TRUE,
       input_scale |-> [some |-> TRUE, v |-> F32Half]] }

\* The formats of a call as <<format argument, input texture, output texture>>:
\* all the same, or a 32-bit input with a 16-bit output.
FormatCombos ==
    {<<f, f, f>> : f \in Formats}
        \cup {<<f, "Rgba32Float", "Rgba16Float">> : f \in Formats}

\* How the output (or an aux) texture relates to the input: the same texture,
\* another of the same size, or one that is wider, taller or layered.
Shapes == {"same", "wider", "taller", "layered"}
Shaped(shape, w, h, fmt, pattern) ==
    Texture(IF shape = "wider" THEN w + 1 ELSE w, IF shape = "taller" THEN h + 1 ELSE h,
            IF shape = "layered" THEN 2 ELSE 1, fmt, pattern)

\* A caller starts denoise_texture / denoise_texture_with_aux.
BridgeCall(kind, fc, w, h, inLayers, pattern, outShape, inPlace, albedo, normal, opts) ==
    /\ rt.raw = Null
    /\ calls < MaxBridgeCalls
    /\ inPlace => fc[2] = fc[3] /\ outShape = "same"
    /\ gtex' = [input |-> Texture(w, h, inLayers, fc[2], pattern),
               output |-> IF inPlace THEN NoTexture ELSE Shaped(outShape, w, h, fc[3], "flat"),
               albedo |-> IF albedo = "none" THEN NoTexture
                          ELSE Shaped(albedo, w, h, fc[2], pattern),
               normal |-> IF normal = "none" THEN NoTexture
                          ELSE Shaped(normal, w, h, fc[2], pattern)]
    /\ call' = [kind |-> kind, format |-> fc[1], output |-> IF inPlace THEN "input" ELSE "output",
                albedo |-> albedo # "none", normal |-> normal # "none", options |-> opts]
    /\ calls' = calls + 1
    /\ UNCHANGED side
    /\ pc' = "b_validate"
    /\ ops' = <<>>
    /\ result' = NoResult
    /\ UNCHANGED <<engineVars, fRel, rt, x, rbuf, map, chan, bl>>

\* The image and the options of a call: the flat image as a fast LDR preview,
\* the ramp with the default options.
Scenes ==
    {sc \in Patterns \X OptionSets : (sc[1] = "flat") <=> (sc[2].quality = "Fast")}

CallDenoiseTexture ==
    /\ pc = "idle"
    /\ \E fc \in FormatCombos, w \in 1..MaxTexW, h \in 1..MaxTexH, inLayers \in 1..2,
       sc \in Scenes, outShape \in Shapes, inPlace \in BOOLEAN :
        BridgeCall("denoise_texture", fc, w, h, inLayers, sc[1], outShape, inPlace,
                   "none", "none", sc[2])

CallDenoiseTextureWithAux ==
    /\ pc = "idle"
    /\ \E fc \in FormatCombos, w \in 1..MaxTexW, h \in 1..MaxTexH, inLayers \in 1..2,
       sc \in Scenes, outShape \in Shapes, inPlace \in BOOLEAN,
       albedo \in Shapes \cup {"none"}, normal \in Shapes \cup {"none"} :
        BridgeCall("denoise_texture_with_aux", fc, w, h, inLayers, sc[1], outShape, inPlace,
                   albedo, normal, sc[2])

\* ------------------------------------------------- filters used directly
\* RtFilter::new / RtLightmapFilter::new: oidnNewFilter answers a handle or
\* null; on null, Err(take_error().unwrap_or(FilterCreationFailed)).
NewFilterCall(kind) ==
    /\ pc = "idle"
    /\ rt.raw = Null
    /\ Len(fRel) < MaxFilters
    /\ \E o \in {"ok", "null", "null_err"} :
        IF o = "ok"
          THEN /\ fRel' = Append(fRel, 0)
               /\ rt' = [NoFilter EXCEPT !.kind = kind, !.raw = Len(fRel) + 1]
               /\ result' = Ok
               /\ ops' = <<Op("new_filter", Len(fRel) + 1, kind)>>
               /\ UNCHANGED devError
          ELSE /\ result' = UnwrapOr(TakeErrorOf(IF o = "null_err" THEN Raise(FilterTypeError)
                                                   ELSE devError),
                                       ErrFilterCreationFailed)
               /\ devError' = NoError
               /\ ops' = <<Op("new_filter", Null, kind), Op("take_error", Null, "")>>
               /\ UNCHANGED <<fRel, rt>>
    /\ call' = [kind |-> "new_filter"]
    /\ pc' = "done"
    /\ UNCHANGED <<side, calls, relCount, live, allocCount, releaseCount, bufData, x, gpuVars>>

NewRtFilter == NewFilterCall("RT")
NewRtLightmapFilter == NewFilterCall("RTLightmap")

\* Drop for RtFilter / RtLightmapFilter: oidnReleaseFilter(self.raw).
DropFilter ==
    /\ pc = "idle"
    /\ rt.raw # Null
    /\ fRel' = [fRel EXCEPT ![rt.raw] = @ + 1]
    /\ rt' = NoFilter
    /\ UNCHANGED <<pc, side, calls, call, result, ops, engineVars, x, gpuVars>>

\* The slices a caller may pass for an image of n floats: right or wrong length.
Slices(n, val) == {Fill(n, val), Fill(n + 3, val)}
OptSlices(n, val) == {NoSlice} \cup {Some(s) : s \in Slices(n, val)}

\* filter.set_dimensions(w, h); filter.execute_with_aux(color, output, albedo, normal).
CallExecuteWithAux ==
    /\ pc = "idle"
    /\ rt.kind = "RT"
    /\ calls < MaxCalls
    /\ \E w \in 0..MaxW, h \in 0..MaxH :
        /\ rt' = [rt EXCEPT !.width = w, !.height = h]
        /\ \E output \in Slices(w * h * 3, F32Half),
              color \in OptSlices(w * h * 3, F32One),
              albedo \in OptSlices(w * h * 3, F32Half),
              normal \in OptSlices(w * h * 3, F32Zero) :
            x' = [X0 EXCEPT !.output = output, !.color = color, !.albedo = albedo,
                            !.normal = normal, !.active = TRUE]
    /\ calls' = calls + 1
    /\ UNCHANGED side
    /\ call' = [kind |-> "execute_with_aux"]
    /\ pc' = "x_entry"
    /\ ops' = <<>>
    /\ result' = NoResult
    /\ UNCHANGED <<engineVars, fRel, gpuVars>>

\* filter.set_dimensions(w, h); filter.execute(color, output) on an RtLightmapFilter.
CallLightmapExecute ==
    /\ pc = "idle"
    /\ rt.kind = "RTLightmap"
    /\ calls < MaxCalls
    /\ \E w \in 0..MaxW, h \in 0..MaxH :
        /\ rt' = [rt EXCEPT !.width = w, !.height = h]
        /\ \E output \in Slices(w * h * 3, F32Half),
              color \in OptSlices(w * h * 3, F32One) :
            x' = [X0 EXCEPT !.output = output, !.color = color, !.active = TRUE]
    /\ calls' = calls + 1
    /\ UNCHANGED side
    /\ call' = [kind |-> "lightmap_execute"]
    /\ pc' = "l_entry"
    /\ ops' = <<>>
    /\ result' = NoResult
    /\ UNCHANGED <<engineVars, fRel, gpuVars>>

\* Another user of the shared device leaves an error in its slot (the generic
\* Filter API commits and executes without querying the error).
DeviceErrorElsewhere ==
    /\ pc = "idle"
    /\ devError = NoError
    /\ \E e \in EngineErrors : devError' = e
    /\ UNCHANGED <<pc, result, ops, relCount, live, allocCount, releaseCount, bufData, rt, x, outer>>

\* The caller has looked at the result and goes on.
Return ==
    /\ pc = "done"
    /\ pc' = "idle"
    /\ call' = NoCall
    /\ result' = NoResult
    /\ ops' = <<>>
    /\ x' = X0
    /\ gtex' = NoTextures
    /\ rbuf' = <<>>
    /\ map' = "unmapped"
    /\ chan' = "empty"
    /\ bl' = B0
    /\ UNCHANGED <<side, calls, fRel, engineVars, rt>>

Init ==
    /\ pc = "idle"
    /\ calls = 0
    /\ threads = <<>>
    /\ device = Device0
    /\ call = NoCall
    /\ result = NoResult
    /\ ops = <<>>
    /\ devError = NoError
    /\ relCount = <<>>
    /\ live = {}
    /\ allocCount = 0
    /\ releaseCount = 0
    /\ bufData = <<>>
    /\ fRel = <<>>
    /\ rt = NoFilter
    /\ x = X0
    /\ gtex = NoTextures
    /\ rbuf = <<>>
    /\ map = "unmapped"
    /\ chan = "empty"
    /\ bl = B0

\* The engine session alone: filters created and used directly by the caller.
NextFilter ==
    \/ NewRtFilter \/ NewRtLightmapFilter \/ DropFilter
    \/ CallExecuteWithAux \/ CallLightmapExecute \/ DeviceErrorElsewhere
    \/ ExecuteWithAuxStep \/ LightmapExecuteStep \/ Return

SpecFilter == Init /\ [][NextFilter]_vars

\* ------------------------------------- pixel codec and row packing alone
\* The pure parts of the bridge applied to inputs drawn at the start: the row
\* stride of a width ("row"), decode -> encode -> pack of a tightly packed
\* buffer ("codec"), encode -> pack of given color and alpha ("encode").

\* w*h pixels of a test image, tightly packed.
TightBuffer(fmt, n_pixels, pattern) ==
    [q \in 1..(n_pixels * TexelWords(fmt)) |->
        PixelWords(fmt, pattern, ((q - 1) \div TexelWords(fmt)) + 1)[((q - 1) % TexelWords(fmt)) + 1]]

\* The alpha values given to an encode on its own: distinct, none of them 1.0.
GivenAlpha(len) == [i \in 1..len |-> <<0, 126, i * 8192>>]
GivenColor(n_pixels) == [q \in 1..(n_pixels * 3) |-> <<0, 127, q * 8192>>]

CodecPatterns(fmt) == {"ramp", "edge"} \cup (IF fmt = "Rgba32Float" THEN {"wide"} ELSE {})

CodecInputs ==
    {[kind |-> "row", format |-> f, w |-> w, h |-> 1, pattern |-> "ramp", alpha_len |-> 0] :
        f \in Formats, w \in 1..MaxRowW}
    \cup UNION {{[kind |-> "codec", format |-> f, w |-> w, h |-> h, pattern |-> pt,
                  alpha_len |-> w * h] : pt \in CodecPatterns(f)} :
                f \in Formats, w \in 1..MaxPackW, h \in 0..MaxPackH}
    \cup UNION {{[kind |-> "encode", format |-> f, w |-> w, h |-> h, pattern |-> "ramp",
                  alpha_len |-> a] : a \in 0..(w * h + 1)} :
                f \in Formats, w \in 1..MaxPackW, h \in 0..MaxPackH}

InitCodec ==
    /\ call \in CodecInputs
    /\ pc = IF call.kind = "row" THEN "c_row"
            ELSE IF call.kind = "codec" THEN "c_decode" ELSE "c_encode"
    /\ rbuf = IF call.kind = "codec"
                THEN TightBuffer(call.format, call.w * call.h, call.pattern) ELSE <<>>
    /\ bl = IF call.kind = "encode"
              THEN [B0 EXCEPT !.color_rgb = GivenColor(call.w * call.h),
                              !.alpha = GivenAlpha(call.alpha_len)]
              ELSE B0
    /\ calls = 0
    /\ threads = <<>>
    /\ device = Device0
    /\ result = NoResult
    /\ ops = <<>>
    /\ devError = NoError
    /\ relCount = <<>>
    /\ live = {}
    /\ allocCount = 0
    /\ releaseCount = 0
    /\ bufData = <<>>
    /\ fRel = <<>>
    /\ rt = NoFilter
    /\ x = X0
    /\ gtex = NoTextures
    /\ map = "unmapped"
    /\ chan = "empty"

\* Lines 353-357 and 445-448: the stride of the readback copy and of the
\* upload copy for one width.
RowLayout ==
    /\ pc = "c_row"
    /\ ops' = <<Op("copy_texture_to_buffer", PaddedBytesPerRow(call.w, call.format), "input"),
                Op("copy_buffer_to_texture", PaddedBytesPerRow(call.w, call.format), "output")>>
    /\ pc' = "c_done"
    /\ UNCHANGED <<side, calls, call, result, engineVars, fRel, rt, x, gpuVars>>

\* Lines 402-428: split the mapped bytes into RGB and alpha.
CodecDecode ==
    /\ pc = "c_decode"
    /\ bl' = [bl EXCEPT !.color_rgb = DecodeColor(rbuf, call.format, call.w * call.h),
                        !.alpha = DecodeAlpha(rbuf, call.format)]
    /\ pc' = "c_encode"
    /\ UNCHANGED <<side, calls, call, result, ops, engineVars, fRel, rt, x, gtex, rbuf, map, chan>>

\* Lines 449-470: interleave RGB and alpha.
CodecEncode ==
    /\ pc = "c_encode"
    /\ bl' = [bl EXCEPT !.output_bytes =
                 Encode(bl.color_rgb, bl.alpha, call.format, call.w * call.h)]
    /\ pc' = "c_pack"
    /\ UNCHANGED <<side, calls, call, result, ops, engineVars, fRel, rt, x, gtex, rbuf, map, chan>>

\* Lines 471-477: copy the rows to the padded stride.
CodecPack ==
    /\ pc = "c_pack"
    /\ bl' = [bl EXCEPT !.upload_data = Pack(bl.output_bytes, call.w, call.h, call.format)]
    /\ pc' = "c_done"
    /\ UNCHANGED <<side, calls, call, result, ops, engineVars, fRel, rt, x, gtex, rbuf, map, chan>>

NextCodec == RowLayout \/ CodecDecode \/ CodecEncode \/ CodecPack

SpecCodec == InitCodec /\ [][NextCodec]_vars

\* The texture-denoise bridge: denoise_texture and denoise_texture_with_aux on
\* a shared engine device.
NextBridge ==
    \/ CallDenoiseTexture \/ CallDenoiseTextureWithAux \/ DeviceErrorElsewhere
    \/ BValidate \/ RbStart \/ RbPoll \/ RbTryRecv \/ RbDecode \/ BNewFilter
    \/ ExecuteInPlaceStep \/ BAfterExecute \/ BEncode \/ BUpload \/ Return

SpecBridge == Init /\ [][NextBridge]_vars

\* The steps of the calling thread inside a bridge call.  The thread is never
\* suspended for good: every wait in the call is the bounded sleep of line 153 /
\* 397, so a step that stays possible is eventually taken.
BridgeRun ==
    \/ BValidate \/ RbStart \/ RbPoll \/ RbTryRecv \/ RbDecode \/ BNewFilter
    \/ ExecuteInPlaceStep \/ BAfterExecute \/ BEncode \/ BUpload

SpecBridgeLive == Init /\ [][NextBridge]_vars /\ WF_vars(BridgeRun)

\* One step of a running bridge call, taken as the function kind takes it.
BridgeStepAs(kind) ==
    \/ BValidateAs(kind) \/ RbStart \/ RbPoll \/ RbTryRecv \/ RbDecode \/ BNewFilter
    \/ ExecuteInPlaceStep \/ BAfterExecute \/ BEncode \/ BUploadAs(kind)

\* ------------------------------------------- threads sharing one device
\* OidnDevice is Send + Sync (device.rs:320-321): several threads may each run
\* execute_with_aux on a filter of their own, all on one device handle.  Each
\* engine call is one step; the engine keeps one pending-error slot for the
\* device (OidnDevice::take_error: "the first unqueried error").
Threads == 1..MaxThreads

\* What a thread passes: in place without aux images, or a color image with
\* albedo and normal (all of the image's length).
ThreadInputs ==
    { [color |-> FALSE, albedo |-> FALSE, normal |-> FALSE],
      [color |-> TRUE, albedo |-> TRUE, normal |-> TRUE] }

\* A thread about to enter execute_with_aux with valid arguments.
Thread0(in) ==
    [pc |-> IF in.color THEN "t_alloc_color" ELSE "t_alloc_out",
     color |-> in.color, albedo |-> in.albedo, normal |-> in.normal,
     color_buf |-> None, out_buf |-> Null, albedo_buf |-> None, normal_buf |-> None,
     raised |-> NoError, log |-> <<>>, result |-> NoResult]

InitThreads ==
    /\ threads \in [Threads -> {Thread0(in) : in \in ThreadInputs}]
    /\ device = Device0
    /\ pc = "threads"
    /\ calls = 0
    /\ call = NoCall
    /\ result = NoResult
    /\ ops = <<>>
    /\ devError = NoError
    /\ relCount = <<>>
    /\ live = {}
    /\ allocCount = 0
    /\ releaseCount = 0
    /\ bufData = <<>>
    /\ fRel = <<>>
    /\ rt = NoFilter
    /\ x = X0
    /\ gtex = NoTextures
    /\ rbuf = <<>>
    /\ map = "unmapped"
    /\ chan = "empty"
    /\ bl = B0

\* What a thread step leaves alone.
threadFrame == <<pc, calls, call, result, ops, bufData, fRel, rt, x, gpuVars, device>>

\* Thread t moves on with its record changed to th.
ThreadGoes(t, th) == threads' = [threads EXCEPT ![t] = th]

\* oidnNewBuffer (+ oidnWriteBuffer) called by a thread, with outcome o.
ThreadNewBuffer(o) ==
    /\ devError' = IF o = "null_err" THEN Raise(OomError) ELSE devError
    /\ IF o = "ok"
         THEN /\ relCount' = Append(relCount, 0)
              /\ live' = live \cup {FreshHandle}
              /\ allocCount' = allocCount + 1
         ELSE UNCHANGED <<relCount, live, allocCount>>
    /\ UNCHANGED releaseCount

\* oidnReleaseBuffer called by a thread on each handle of hs.
ThreadRelease(hs) ==
    /\ relCount' = ReleaseAll(relCount, hs)
    /\ live' = live \ Range(hs)
    /\ releaseCount' = releaseCount + Len(hs)
    /\ UNCHANGED <<devError, allocCount>>

AllocLog(o) ==
    <<Op("alloc", IF o = "ok" THEN FreshHandle ELSE Null,
         IF o = "null_err" THEN OomError ELSE NoError)>>

\* Lines 206-217.
TAllocColor(t) ==
    /\ threads[t].pc = "t_alloc_color"
    /\ \E o \in AllocOutcomes :
        /\ ThreadNewBuffer(o)
        /\ ThreadGoes(t, [threads[t] EXCEPT
                            !.color_buf = IF o = "ok" THEN Some(FreshHandle) ELSE None,
                            !.log = @ \o AllocLog(o),
                            !.pc = IF o = "ok" THEN "t_alloc_out" ELSE "t_fail_take"])
    /\ UNCHANGED threadFrame

\* Lines 218-234.
TAllocOut(t) ==
    /\ threads[t].pc = "t_alloc_out"
    /\ \E o \in AllocOutcomes :
        IF o = "ok"
          THEN /\ ThreadNewBuffer(o)
               /\ ThreadGoes(t, [threads[t] EXCEPT !.out_buf = FreshHandle,
                                                   !.log = @ \o AllocLog(o),
                                                   !.pc = "t_alloc_albedo"])
          ELSE /\ devError' = IF o = "null_err" THEN Raise(OomError) ELSE devError
               /\ relCount' = ReleaseAll(relCount, OutNullReleases(threads[t]))
               /\ live' = live \ Range(OutNullReleases(threads[t]))
               /\ releaseCount' = releaseCount + Len(OutNullReleases(threads[t]))
               /\ UNCHANGED allocCount
               /\ ThreadGoes(t, [threads[t] EXCEPT
                                   !.log = @ \o AllocLog(o)
                                             \o ReleaseLog(OutNullReleases(threads[t])),
                                   !.pc = "t_fail_take"])
    /\ UNCHANGED threadFrame

\* Lines 256-264.
TAllocAlbedo(t) ==
    /\ threads[t].pc = "t_alloc_albedo"
    /\ IF threads[t].albedo
         THEN \E o \in AllocOutcomes :
                /\ ThreadNewBuffer(o)
                /\ ThreadGoes(t, [threads[t] EXCEPT
                                    !.albedo_buf = Some(IF o = "ok" THEN FreshHandle ELSE Null),
                                    !.log = @ \o AllocLog(o),
                                    !.pc = "t_alloc_normal"])
         ELSE /\ ThreadGoes(t, [threads[t] EXCEPT !.pc = "t_alloc_normal"])
              /\ UNCHANGED engineVars
    /\ UNCHANGED threadFrame

\* Lines 265-273.
TAllocNormal(t) ==
    /\ threads[t].pc = "t_alloc_normal"
    /\ IF threads[t].normal
         THEN \E o \in AllocOutcomes :
                /\ ThreadNewBuffer(o)
                /\ ThreadGoes(t, [threads[t] EXCEPT
                                    !.normal_buf = Some(IF o = "ok" THEN FreshHandle ELSE Null),
                                    !.log = @ \o AllocLog(o),
                                    !.pc = "t_null_check"])
         ELSE /\ ThreadGoes(t, [threads[t] EXCEPT !.pc = "t_null_check"])
              /\ UNCHANGED engineVars
    /\ UNCHANGED threadFrame

\* Lines 275-288.
TNullCheck(t) ==
    /\ threads[t].pc = "t_null_check"
    /\ IF (threads[t].albedo_buf.some /\ threads[t].albedo_buf.v = Null)
           \/ (threads[t].normal_buf.some /\ threads[t].normal_buf.v = Null)
         THEN /\ ThreadRelease(AuxNullReleases(threads[t]))
              /\ ThreadGoes(t, [threads[t] EXCEPT
                                  !.log = @ \o ReleaseLog(AuxNullReleases(threads[t])),
                                  !.pc = "t_fail_take"])
         ELSE /\ ThreadGoes(t, [threads[t] EXCEPT !.pc = "t_commit"])
              /\ UNCHANGED engineVars
    /\ UNCHANGED threadFrame

\* Lines 290-360: the binds and parameter sets on the thread's own filter, then
\* oidnCommitFilter.
TCommit(t) ==
    /\ threads[t].pc = "t_commit"
    /\ ThreadGoes(t, [threads[t] EXCEPT !.log = @ \o <<Op("commit", Null, "")>>,
                                        !.pc = "t_execute"])
    /\ UNCHANGED <<engineVars, threadFrame>>

\* Line 361: oidnExecuteFilter; an error goes to the device's slot.
TExecute(t) ==
    /\ threads[t].pc = "t_execute"
    /\ \E e \in {NoError} \cup EngineErrors :
        /\ devError' = IF e = NoError THEN devError ELSE Raise(e)
        /\ ThreadGoes(t, [threads[t] EXCEPT !.raised = e,
                                            !.log = @ \o <<Op("execute", Null, e)>>,
                                            !.pc = "t_sync"])
    /\ UNCHANGED <<relCount, live, allocCount, releaseCount, threadFrame>>

\* Line 365.
TSync(t) ==
    /\ threads[t].pc = "t_sync"
    /\ ThreadGoes(t, [threads[t] EXCEPT !.log = @ \o <<Op("sync", Null, "")>>,
                                        !.pc = "t_rel_aux"])
    /\ UNCHANGED <<engineVars, threadFrame>>

\* Lines 367-376.
TReleaseAux(t) ==
    /\ threads[t].pc = "t_rel_aux"
    /\ ThreadRelease(PostSyncReleases(threads[t]))
    /\ ThreadGoes(t, [threads[t] EXCEPT
                        !.log = @ \o ReleaseLog(PostSyncReleases(threads[t])),
                        !.pc = "t_read"])
    /\ UNCHANGED threadFrame

\* Lines 378-385: oidnReadBuffer into the caller's output.
TRead(t) ==
    /\ threads[t].pc = "t_read"
    /\ ThreadGoes(t, [threads[t] EXCEPT
                        !.log = @ \o <<Op("read", threads[t].out_buf, "")>>,
                        !.pc = "t_rel_final"])
    /\ UNCHANGED <<engineVars, threadFrame>>

\* Lines 387-390.
TReleaseFinal(t) ==
    /\ threads[t].pc = "t_rel_final"
    /\ ThreadRelease(FinalReleases(threads[t]))
    /\ ThreadGoes(t, [threads[t] EXCEPT
                        !.log = @ \o ReleaseLog(FinalReleases(threads[t])),
                        !.pc = "t_take_final"])
    /\ UNCHANGED threadFrame

\* Lines 392-395: take_error decides the result.
TTakeFinal(t) ==
    /\ threads[t].pc = "t_take_final"
    /\ ThreadGoes(t, [threads[t] EXCEPT !.result = UnwrapOr(TakeError, Ok),
                                        !.log = @ \o <<Op("take_error", Null, devError)>>,
                                        !.pc = "t_done"])
    /\ devError' = NoError
    /\ UNCHANGED <<relCount, live, allocCount, releaseCount, threadFrame>>

\* Lines 209, 223, 286: Err(take_error().unwrap_or(OutOfMemory)).
TFailTake(t) ==
    /\ threads[t].pc = "t_fail_take"
    /\ ThreadGoes(t, [threads[t] EXCEPT !.result = UnwrapOr(TakeError, ErrOutOfMemory),
                                        !.log = @ \o <<Op("take_error", Null, devError)>>,
                                        !.pc = "t_done"])
    /\ devError' = NoError
    /\ UNCHANGED <<relCount, live, allocCount, releaseCount, threadFrame>>

NextThreads ==
    \E t \in Threads :
        \/ TAllocColor(t) \/ TAllocOut(t) \/ TAllocAlbedo(t) \/ TAllocNormal(t)
        \/ TNullCheck(t) \/ TCommit(t) \/ TExecute(t) \/ TSync(t) \/ TReleaseAux(t)
        \/ TRead(t) \/ TReleaseFinal(t) \/ TTakeFinal(t) \/ TFailTake(t)

SpecThreads == InitThreads /\ [][NextThreads]_vars

\* ------------------------------------------- the device and its clones
\* #[derive(Clone)] (device.rs:89-93): the new value copies raw and clones the
\* Arc<()>; no engine call is made.
DeviceClone ==
    /\ device.alive > 0
    /\ device.cloned < MaxClones
    /\ device' = [device EXCEPT !.alive = @ + 1, !.arc = @ + 1, !.cloned = @ + 1]
    /\ UNCHANGED <<pc, result, ops, engineVars, rt, x, calls, call, fRel, gpuVars, threads>>

\* OidnDevice::retain (device.rs:305-307): oidnRetainDevice.
DeviceRetain ==
    /\ device.alive > 0
    /\ device.retains < MaxRetains
    /\ device' = [device EXCEPT !.retains = @ + 1]
    /\ UNCHANGED <<pc, result, ops, engineVars, rt, x, calls, call, fRel, gpuVars, threads>>

\* Drop for OidnDevice (device.rs:314-318): oidnReleaseDevice(self.raw), then
\* the fields are dropped (the Arc loses an owner).
DeviceDrop ==
    /\ device.alive > 0
    /\ device' = [device EXCEPT !.alive = @ - 1, !.arc = @ - 1, !.releases = @ + 1]
    /\ UNCHANGED <<pc, result, ops, engineVars, rt, x, calls, call, fRel, gpuVars, threads>>

NextDevice == DeviceClone \/ DeviceRetain \/ DeviceDrop

SpecDevice == Init /\ [][NextDevice]_vars

\* ------------------------------------------ the bridge's size computations
\* Texture extents up to MaxDim; the sampled extents include the largest.
MaxDim == 32768
DimSamples == {1, 2, 255, 4096, 8192, 16384, MaxDim - 1, MaxDim}

\* A natural number hi * 256 + lo with lo < 256: the exact product a * b.
MulWide(a, b) ==
    LET a1 == a \div 256
        a0 == a % 256
    IN  [hi |-> a1 * b + (a0 * b) \div 256, lo |-> (a0 * b) % 256]

\* 2^32 in units of 256: a wide number fits u32 when its hi part is below it.
U32Hi == 16777216
OverflowsU32(n) == n.hi >= U32Hi
WrapU32(n) == [hi |-> n.hi % U32Hi, lo |-> n.lo]

\* a * b on two u32 values: the product when it fits; otherwise the build
\* decides, a panic with overflow checks on and the wrapped product without.
MulU32(a, b) ==
    LET p == MulWide(a, b)
    IN  IF OverflowsU32(p)
          THEN {[panic |-> TRUE, v |-> p], [panic |-> FALSE, v |-> WrapU32(p)]}
          ELSE {[panic |-> FALSE, v |-> p]}

Sizes0 ==
    [bytes_per_row |-> 0, padded_bytes_per_row |-> 0, buffer_size |-> MulWide(0, 0),
     n_pixels |-> MulWide(0, 0), upload_len |-> MulWide(0, 0)]

SizeInputs ==
    {[kind |-> "sizes", format |-> f, w |-> w, h |-> h] :
        f \in Formats, w \in DimSamples, h \in DimSamples}

InitSizes ==
    /\ call \in SizeInputs
    /\ pc = "s_row"
    /\ rbuf = <<>>
    /\ bl = Sizes0
    /\ calls = 0
    /\ threads = <<>>
    /\ device = Device0
    /\ result = NoResult
    /\ ops = <<>>
    /\ devError = NoError
    /\ relCount = <<>>
    /\ live = {}
    /\ allocCount = 0
    /\ releaseCount = 0
    /\ bufData = <<>>
    /\ fRel = <<>>
    /\ rt = NoFilter
    /\ x = X0
    /\ gtex = NoTextures
    /\ map = "unmapped"
    /\ chan = "empty"

sizeFrame == <<side, calls, call, result, ops, engineVars, fRel, rt, x, gtex, rbuf, map, chan>>

\* Lines 105-111 (354-357): bytes_per_row and its padding in u32, the
\* readback buffer's size in u64.
SizeRow ==
    /\ pc = "s_row"
    /\ \E r \in MulU32(call.w, BytesPerPixel(call.format)) :
        IF r.panic
          THEN pc' = "s_panic" /\ UNCHANGED bl
          ELSE LET bytes_per_row == r.v.hi * 256 + r.v.lo
                   padded == ((bytes_per_row + Alignment - 1) \div Alignment) * Alignment
               IN  /\ bl' = [bl EXCEPT !.bytes_per_row = bytes_per_row,
                                       !.padded_bytes_per_row = padded,
                                       !.buffer_size = MulWide(padded, call.h)]
                   /\ pc' = "s_pixels"
    /\ UNCHANGED sizeFrame

\* Line 160 (358, 444): n_pixels = (w * h) as usize.
SizePixels ==
    /\ pc = "s_pixels"
    /\ \E r \in MulU32(call.w, call.h) :
        IF r.panic
          THEN pc' = "s_panic" /\ UNCHANGED bl
          ELSE bl' = [bl EXCEPT !.n_pixels = r.v] /\ pc' = "s_staging"
    /\ UNCHANGED sizeFrame

\* Line 228 (471): vec![0u8; (padded_bytes_per_row * h) as usize].
SizeStaging ==
    /\ pc = "s_staging"
    /\ \E r \in MulU32(bl.padded_bytes_per_row, call.h) :
        IF r.panic
          THEN pc' = "s_panic" /\ UNCHANGED bl
          ELSE bl' = [bl EXCEPT !.upload_len = r.v] /\ pc' = "s_done"
    /\ UNCHANGED sizeFrame

NextSizes == SizeRow \/ SizePixels \/ SizeStaging

SpecSizes == InitSizes /\ [][NextSizes]_vars

\* --------------------------------------------------------------- properties
\* Buffer handles the current call has allocated / released, from its log.
AllocatedInCall == {ops[i].h : i \in {j \in DOMAIN ops : ops[j].op = "alloc" /\ ops[j].h # Null}}
ReleasedInCall == {ops[i].h : i \in {j \in DOMAIN ops : ops[j].op = "release"}}
OpsNamed(name) == {i \in DOMAIN ops : ops[i].op = name}

\* C1: whenever no execute call is running, whatever the outcomes of the calls
\* so far, the engine has seen as many buffer releases as allocations, and at no
\* time has any buffer handle been released more than once.
C1_AllocReleaseBalanced ==
    /\ (pc \in {"idle", "done"} => allocCount = releaseCount /\ live = {})
    /\ \A h \in DOMAIN relCount : relCount[h] <= 1

C1_Witness ==
    /\ pc = "done" /\ call.kind = "lightmap_execute" /\ result.tag = "OidnError"
    /\ calls = 2 /\ allocCount >= 5

\* C2: in execute_with_aux, when the error value is produced (take_error is about
\* to be called, or InvalidDimensions is returned), every buffer the call has
\* allocated has already been released.
C2_ReleasedBeforeError ==
    call.kind = "execute_with_aux" =>
        /\ (pc \in {"x_fail_take", "x_take_final"} => AllocatedInCall \subseteq ReleasedInCall)
        /\ (pc = "done" /\ IsErr(result) => AllocatedInCall \subseteq ReleasedInCall)
        /\ \A t \in OpsNamed("take_error") :
             \A a \in OpsNamed("alloc") :
                 (a < t /\ ops[a].h # Null) =>
                     \E r \in OpsNamed("release") : r < t /\ ops[r].h = ops[a].h

C2_Witness ==
    /\ call.kind = "execute_with_aux" /\ pc = "x_fail_take"
    /\ Cardinality(AllocatedInCall) = 3

\* C3: every engine-to-host read of the output buffer comes after a synchronize
\* that itself comes after the call's execute.
C3_SyncBeforeRead ==
    \A i \in OpsNamed("read") :
        \E j \in OpsNamed("sync") :
            /\ j < i
            /\ \E k \in OpsNamed("execute") : k < j
            /\ \A m \in OpsNamed("execute") : m < j

C3_Witness ==
    /\ pc = "done" /\ result = Ok /\ OpsNamed("read") # {}
    /\ call.kind = "lightmap_execute"



\* ------------------------------------------------ properties of the bridge
InBridge == call.kind \in BridgeKinds
\* The format argument is the format of the input and of the output texture.
FormatsConsistent ==
    gtex["input"].fmt = call.format /\ gtex[call.output].fmt = call.format
\* The words of the alpha channel of pixel p (1..) of texel data d in format fmt.
AlphaWords(d, fmt, p) ==
    SubSeq(d[p], 3 * (TexelWords(fmt) \div 4) + 1, TexelWords(fmt))
\* The input texture as the caller passed it (its content before any upload).
InputGiven(pattern) ==
    Texture(gtex["input"].w, gtex["input"].h, 1, gtex["input"].fmt, pattern).data

\* C4: on a successful denoise_texture / denoise_texture_with_aux call on
\* textures of the call's format, the alpha written to every output pixel is
\* the alpha of the input pixel at the same place.
C4_AlphaPreserved ==
    (InBridge /\ pc = "done" /\ result = Ok /\ FormatsConsistent) =>
        \E pattern \in Patterns :
            /\ call.output # "input" => gtex["input"].data = InputGiven(pattern)
            /\ \A p \in 1..(gtex["input"].w * gtex["input"].h) :
                AlphaWords(gtex[call.output].data, call.format, p)
                    = AlphaWords(InputGiven(pattern), call.format, p)

\* The float the mapped buffer holds in channel k of the texel at (row, col),
\* taking rows at the padded stride.
TexelFloat(raw, fmt, w, row, col, k) ==
    LET at == row * (PaddedBytesPerRow(w, fmt) \div 2) + col * TexelWords(fmt)
    IN  IF fmt = "Rgba32Float" THEN F32FromBits(raw[at + 2 * k + 1], raw[at + 2 * k + 2])
        ELSE F16ToF32(raw[at + k + 1])

\* C5: the readback takes pixel (row, col) from byte offset
\* row*padded + col*bpp of the mapped buffer, and reading back a buffer made by
\* the upload-side pack gives the tight buffer that was packed.
C5_RowPackingRoundTrip ==
    /\ (InBridge /\ FormatsConsistent /\ bl.decoded = "input"
            /\ pc \in {"rb_start", "b_new_filter"}) =>
        \A row \in 0..(gtex["input"].h - 1), col \in 0..(gtex["input"].w - 1) :
            /\ \A k \in 0..2 :
                bl.color_rgb[(row * gtex["input"].w + col) * 3 + k + 1]
                    = TexelFloat(rbuf, call.format, gtex["input"].w, row, col, k)
            /\ bl.alpha[row * gtex["input"].w + col + 1]
                    = TexelFloat(rbuf, call.format, gtex["input"].w, row, col, 3)
    /\ (InBridge /\ pc = "b_upload") =>
        Encode(DecodeColor(bl.upload_data, call.format, gtex["input"].w * gtex["input"].h),
               DecodeAlpha(bl.upload_data, call.format), call.format,
               gtex["input"].w * gtex["input"].h) = bl.output_bytes

\* The surfaces a bridge call was given.
Surfaces ==
    {"input", call.output} \cup (IF call.albedo THEN {"albedo"} ELSE {})
        \cup (IF call.normal THEN {"normal"} ELSE {})
SurfaceMismatch ==
    \E r \in Surfaces :
        \/ gtex[r].w # gtex["input"].w
        \/ gtex[r].h # gtex["input"].h
        \/ gtex[r].layers # 1
GpuOrEngineWork ==
    OpsNamed("create_buffer") \cup OpsNamed("create_buffer_init") \cup OpsNamed("submit")
        \cup OpsNamed("copy_texture_to_buffer") \cup OpsNamed("copy_buffer_to_texture")
        \cup OpsNamed("new_filter") \cup OpsNamed("alloc")

\* C6: a bridge call given a surface whose width or height differs from the
\* input's, or whose layer count is not 1, returns InvalidDimensions, and up to
\* its return creates no GPU buffer, submits no GPU copy, creates no engine
\* filter and allocates no engine buffer.
C6_MismatchRejectedBeforeWork ==
    (InBridge /\ SurfaceMismatch) =>
        /\ pc \in {"b_validate", "done"}
        /\ pc = "done" => result = ErrInvalidDimensions
        /\ GpuOrEngineWork = {}
        /\ rt.raw = Null /\ live = {}

C6_Witness ==
    /\ InBridge /\ pc = "done" /\ result = ErrInvalidDimensions
    /\ call.normal /\ gtex["normal"].w # gtex["input"].w
    /\ call.albedo /\ SizeMatches(gtex["albedo"], gtex["input"])
    /\ SizeMatches(gtex[call.output], gtex["input"])

\* C7: a bridge call with a 32-bit input texture and a 16-bit output texture
\* (of matching size) returns UnsupportedFormat, and submits no GPU copy.
C7_EncodingMismatchRejected ==
    (InBridge /\ ~ SurfaceMismatch
        /\ gtex["input"].fmt = "Rgba32Float" /\ gtex[call.output].fmt = "Rgba16Float") =>
        /\ pc = "done" => result = ErrUnsupportedFormat
        /\ OpsNamed("submit") = {}

\* The errors the engine had pending at the synchronize of the call's execute.
PendingAtSync == {ops[i].x : i \in OpsNamed("sync")} \ {NoError}

C9_MapFailureReturned ==
    (InBridge /\ map = "failed") =>
        /\ pc \in {"rb_try_recv", "done"}
        /\ pc = "done" => result = ErrBufferMapFailed
        /\ OpsNamed("new_filter") \cup OpsNamed("alloc")
              \cup OpsNamed("copy_buffer_to_texture") = {}
        /\ rt.raw = Null

C9_Witness ==
    /\ InBridge /\ pc = "done" /\ map = "failed" /\ result = ErrBufferMapFailed
    /\ bl.target = "normal" /\ Cardinality(OpsNamed("get_mapped_range")) = 2

\* C10: the mapped bytes of a readback buffer are obtained only when the map
\* callback has delivered success for that buffer: never while the map is
\* pending, never after it failed.
C10_MappedBeforeRead ==
    /\ \A i \in OpsNamed("get_mapped_range") : ops[i].x = "mapped"
    /\ pc = "rb_decode" => map = "mapped" /\ chan = "closed"

C10_Witness ==
    /\ pc = "b_new_filter" /\ map = "mapped"
    /\ Cardinality(OpsNamed("get_mapped_range")) = 3


\* Filter handles the current call has created, from its log.
FiltersCreated == {ops[i].h : i \in OpsNamed("new_filter")} \ {Null}

\* C11: when a bridge call has returned, every filter handle it created has
\* been released exactly once, by that call and after its creation, whatever
\* the result; a call whose filter creation failed has released no filter.
C11_FilterReleasedOnce ==
    /\ \A h \in DOMAIN fRel : fRel[h] <= 1
    /\ (InBridge /\ pc = "done") =>
        /\ \A h \in FiltersCreated :
            /\ fRel[h] = 1
            /\ Cardinality({i \in OpsNamed("release_filter") : ops[i].h = h}) = 1
            /\ \A i \in OpsNamed("release_filter"), j \in OpsNamed("new_filter") :
                (ops[i].h = h /\ ops[j].h = h) => j < i
        /\ {ops[i].h : i \in OpsNamed("release_filter")} \subseteq FiltersCreated
        /\ rt.raw = Null

C11_Witness ==
    /\ InBridge /\ pc = "done" /\ result = ErrOutOfMemory
    /\ FiltersCreated # {} /\ OpsNamed("release_filter") # {}


\* The stage a bridge call is in: 1 Validating, 2 ReadingSurface, 3 Decoding,
\* 4 Denoising, 5 Encoding, 6 WritingSurface, 7 Done or Failed.
StageOf ==
    IF pc = "b_validate" THEN 1
    ELSE IF pc \in {"rb_start", "rb_poll", "rb_try_recv"} THEN 2
    ELSE IF pc = "rb_decode" THEN 3
    ELSE IF pc = "b_encode" THEN 5
    ELSE IF pc = "b_upload" THEN 6
    ELSE IF pc = "done" THEN 7
    ELSE IF pc = "idle" THEN 0
    ELSE 4

\* The surfaces in the order they are read back.
SurfaceIndex(r) == IF r = "input" THEN 1 ELSE IF r = "albedo" THEN 2 ELSE 3
\* The surface being read back or decoded.
CurrentSurface == IF pc = "rb_start" THEN Head(bl.todo) ELSE bl.target
\* The stage with ReadingSurface and Decoding counted once per surface:
\* reading and decoding of the input, of albedo, of normal, then the rest.
StageRank ==
    IF StageOf = 2 THEN 2 * SurfaceIndex(CurrentSurface)
    ELSE IF StageOf = 3 THEN 2 * SurfaceIndex(CurrentSurface) + 1
    ELSE IF StageOf >= 4 THEN StageOf + 4
    ELSE StageOf

\* The surfaces whose readback copy the call has submitted.
SurfacesRead == {ops[i].x : i \in OpsNamed("copy_texture_to_buffer")}

\* Once a stage has failed, no work of a later stage: a failed map leaves the
\* call in the poll loop's match or returned, with only the surfaces up to the
\* failing one read and no filter created; a failed execute leaves it at the
\* `?` or returned; a failed call has uploaded nothing.
NoWorkAfterFailure ==
    InBridge =>
        /\ map = "failed" =>
            /\ pc \in {"rb_try_recv", "done"}
            /\ \A r \in SurfacesRead : SurfaceIndex(r) <= SurfaceIndex(bl.target)
            /\ OpsNamed("new_filter") = {}
        /\ x.res.tag \notin {"Ok", "none"} => pc \in {"b_after_execute", "done"}
        /\ (pc = "done" /\ result # Ok) =>
            OpsNamed("create_buffer_init") \cup OpsNamed("copy_buffer_to_texture") = {}

\* C12 as stated: a bridge call goes through Validating, ReadingSurface,
\* Decoding, Denoising, Encoding, WritingSurface, Done in that order, never
\* back to an earlier stage, and does no work of a later stage after a failure.
C12_StagesInOrder ==
    /\ []NoWorkAfterFailure
    /\ [][(InBridge /\ pc' # "idle") => StageOf' >= StageOf]_vars

\* C12 amended: ReadingSurface and Decoding happen once per supplied surface,
\* in the order input, albedo, normal (each surface decoded before the next is
\* read); with the stages counted that way a bridge call never goes back to an
\* earlier stage, and does no work of a later stage after a failure.
C12_StagesInOrderPerSurface ==
    /\ []NoWorkAfterFailure
    /\ [][(InBridge /\ pc' # "idle") => StageRank' >= StageRank]_vars

C12_Witness ==
    /\ call.kind = "denoise_texture_with_aux" /\ pc = "done" /\ result = ErrBufferMapFailed
    /\ call.normal /\ bl.target = "albedo" /\ SurfacesRead = {"input", "albedo"}


\* The step of an engine session an engine call belongs to ("" for the calls
\* that are not steps: allocation, release, the error query).
StepOf(o) ==
    IF o.op = "write" THEN "upload"
    ELSE IF o.op \in {"bind", "set"} THEN "configure"
    ELSE IF o.op \in {"commit", "execute", "sync", "read"} THEN o.op
    ELSE ""

\* C13: in an execute call, between the last engine call of one step (upload,
\* configure, commit, execute, synchronize, read-output) and the first of the
\* next the pending-error slot is queried, and no step starts while the engine
\* has an error pending.
C13_ErrorQueriedAfterEachStep ==
    call.kind \in DirectKinds =>
        /\ \A i, j \in DOMAIN ops :
            (i < j /\ StepOf(ops[i]) # "" /\ StepOf(ops[j]) # ""
                /\ StepOf(ops[i]) # StepOf(ops[j])) =>
                    \E k \in OpsNamed("take_error") : i < k /\ k < j
        /\ pc \in {"x_commit", "x_execute", "x_sync", "x_read",
                   "l_commit", "l_execute", "l_sync", "l_read"} => devError = NoError


\* ------------------------------- properties of row packing and the codec
\* C14: for every width and both formats the row stride is the smallest
\* multiple of the alignment that is at least width*bpp, and the upload copy
\* uses the stride the readback copy used.
C14_PaddedStride ==
    (call.kind = "row" /\ pc = "c_done") =>
        LET padded == ops[1].h
            unpadded == call.w * (IF call.format = "Rgba32Float" THEN 16 ELSE 8)
        IN  /\ padded >= unpadded
            /\ padded % 256 = 0
            /\ padded - unpadded < 256
            /\ ops[2].h = padded

C14_Witness ==
    /\ call.kind = "row" /\ pc = "c_done"
    /\ call.format = "Rgba16Float" /\ call.w = 33 /\ ops[1].h = 512


\* C15: the packed upload buffer has padded*height bytes; in every row the
\* first `unpadded` bytes are that row of the tight buffer and the rest of the
\* row is zero; the tight buffer has exactly the bytes the rows take (nothing
\* outside them is read); for height 0 the packed buffer is empty.
C15_PackRows ==
    (call.kind \in {"codec", "encode"} /\ pc = "c_done") =>
        LET padded == PaddedBytesPerRow(call.w, call.format) \div 2
            unpadded == BytesPerRow(call.w, call.format) \div 2
        IN  /\ Len(bl.upload_data) = padded * call.h
            /\ Len(bl.output_bytes) = unpadded * call.h
            /\ \A r \in 0..(call.h - 1) :
                /\ SubSeq(bl.upload_data, r * padded + 1, r * padded + unpadded)
                       = SubSeq(bl.output_bytes, r * unpadded + 1, (r + 1) * unpadded)
                /\ \A q \in (r * padded + unpadded + 1)..((r + 1) * padded) :
                       bl.upload_data[q] = 0
            /\ call.h = 0 => bl.upload_data = <<>>

C15_Witness ==
    /\ call.kind = "codec" /\ pc = "c_done" /\ call.h = 2 /\ call.w = 2
    /\ call.pattern = "edge" /\ Len(bl.upload_data) = 256

\* C16: encode writes alpha[i] to pixel i when the alpha sequence has an
\* element i, and 1.0 when it is shorter; it produces all pixels whatever the
\* length of the alpha sequence.
C16_AlphaDefault ==
    (call.kind = "encode" /\ pc \in {"c_pack", "c_done"}) =>
        /\ Len(bl.output_bytes) = call.w * call.h * TexelWords(call.format)
        /\ \A i \in 0..(call.w * call.h - 1) :
            SubSeq(bl.output_bytes, i * TexelWords(call.format) + 3 * (TexelWords(call.format) \div 4) + 1,
                   (i + 1) * TexelWords(call.format))
                = ChannelWords(call.format, IF i < Len(bl.alpha) THEN bl.alpha[i + 1] ELSE F32One)

C16_Witness ==
    /\ call.kind = "encode" /\ pc = "c_done" /\ call.w * call.h = 4
    /\ Len(bl.alpha) = 2 /\ call.format = "Rgba16Float"

\* C17: on a tightly packed buffer decode followed by encode gives back the
\* bytes it started from, in both formats, channel order kept: the RGB of pixel
\* i are the first three channels of texel i and the alpha the fourth.
C17_DecodeEncodeIdentity ==
    (call.kind = "codec" /\ pc \in {"c_pack", "c_done"}) =>
        /\ bl.output_bytes = rbuf
        /\ \A i \in 1..(call.w * call.h) :
            /\ \A k \in 0..2 : bl.color_rgb[(i - 1) * 3 + k + 1] = TexFloat(call.pattern, i, k)
            /\ bl.alpha[i] = TexFloat(call.pattern, i, 3)

C17_Witness ==
    /\ call.kind = "codec" /\ pc = "c_done" /\ call.format = "Rgba16Float"
    /\ call.pattern = "edge" /\ call.w * call.h = 4 /\ bl.output_bytes # <<>>


\* C18: the readback decode of a width x height surface yields
\* width*height*3 color values and width*height alpha values.
C18_DecodeLengths ==
    (InBridge /\ FormatsConsistent /\ bl.decoded = "input"
        /\ pc \in {"rb_start", "b_new_filter"}) =>
        /\ Len(bl.color_rgb) = gtex["input"].w * gtex["input"].h * 3
        /\ Len(bl.alpha) = gtex["input"].w * gtex["input"].h


\* The buffer bound to an image slot by the current call (Null when none was).
BoundTo(slot) ==
    IF \E i \in OpsNamed("bind") : ops[i].x = slot
      THEN ops[CHOOSE i \in OpsNamed("bind") : ops[i].x = slot].h
      ELSE Null
\* What C19 says of the aux roles and of the buffers' size: albedo and normal
\* have a buffer of their own exactly when supplied, bound to their slot, and
\* every buffer holds pixelCount*3 floats of 4 bytes.
AuxRolesAndSizes ==
    /\ call.albedo <=> BoundTo("albedo") # Null
    /\ call.normal <=> BoundTo("normal") # Null
    /\ \A s1, s2 \in {"output", "albedo", "normal"} :
        (s1 # s2 /\ BoundTo(s1) # Null) => BoundTo(s1) # BoundTo(s2)
    /\ \A h \in AllocatedInCall :
        Len(bufData[h]) * 4 = gtex["input"].w * gtex["input"].h * 3 * 4
    /\ AllocatedInCall = {BoundTo(s) : s \in {"color", "output", "albedo", "normal"}} \ {Null}

ArgsInvalid ==
    \/ rt.width = 0 \/ rt.height = 0
    \/ Len(x.output) # rt.width * rt.height * 3
    \/ \E s \in {x.color, x.albedo, x.normal} : s.some /\ Len(s.v) # rt.width * rt.height * 3

\* C20: an execute_with_aux call whose arguments fail validation, an albedo or
\* normal slice of the wrong length included, allocates no engine buffer and
\* releases none, and returns InvalidDimensions.
C20_ValidationBeforeAllocation ==
    (call.kind = "execute_with_aux" /\ pc # "idle" /\ ArgsInvalid) =>
        /\ OpsNamed("alloc") = {} /\ OpsNamed("release") = {}
        /\ pc = "done" => result = ErrInvalidDimensions


\* The dimensions or the output / color slices of the running execute call are
\* invalid: a zero width or height, or a length other than width*height*3.
BaseArgsInvalid ==
    \/ rt.width = 0 \/ rt.height = 0
    \/ Len(x.output) # rt.width * rt.height * 3
    \/ (x.color.some /\ Len(x.color.v) # rt.width * rt.height * 3)

\* C21: an execute_with_aux call on a filter whose width or height is 0, or
\* with an output or color slice whose length is not width*height*3, returns
\* InvalidDimensions and makes no engine call at all: no buffer is allocated,
\* nothing is committed or executed.
C21_InvalidDimensionsNoWork ==
    (call.kind = "execute_with_aux" /\ pc # "idle" /\ BaseArgsInvalid) =>
        /\ pc \in {"x_entry", "done"}
        /\ pc = "done" => result = ErrInvalidDimensions
        /\ ops = <<>>
        /\ live = {}

C21_Witness ==
    /\ call.kind = "execute_with_aux" /\ pc = "done" /\ result = ErrInvalidDimensions
    /\ rt.width # 0 /\ rt.height # 0 /\ Len(x.output) = rt.width * rt.height * 3
    /\ x.color.some /\ Len(x.color.v) # rt.width * rt.height * 3


\* C22: when oidnNewFilter answers a null handle, RtLightmapFilter::new
\* returns FilterCreationFailed.
C22_LightmapCreationFailed ==
    (call.kind = "new_filter" /\ pc = "done" /\ ops[1].x = "RTLightmap" /\ ops[1].h = Null) =>
        result = ErrFilterCreationFailed


\* C23: when an execute call on a filter has returned Ok (one thread using the
\* device), the device's pending-error slot is empty: take_error would return
\* None.
C23_OkLeavesNoError ==
    (call.kind \in DirectKinds /\ pc = "done" /\ result = Ok) =>
        /\ devError = NoError
        /\ TakeError = None

C23_Witness ==
    /\ call.kind = "execute_with_aux" /\ pc = "done" /\ result = Ok
    /\ OpsNamed("execute") # {} /\ calls = 2 /\ devError = NoError


\* C24: when the engine returns a null handle for a scratch buffer, the execute
\* call fails with Error::OutOfMemory.
NullAllocations == {i \in OpsNamed("alloc") : ops[i].h = Null}

C24_NullAllocationIsOutOfMemory ==
    (call.kind \in DirectKinds /\ pc = "done" /\ NullAllocations # {}) =>
        result = ErrOutOfMemory


\* C25: denoise_texture_with_aux with albedo = None and normal = None behaves
\* as denoise_texture on the same arguments: from the same state (the same
\* surfaces, options and collaborator answers so far) every step one of them
\* takes, with its operations, their arguments and the result returned, is the
\* step the other takes.
C25_NoAuxEquivalent ==
    [][(InBridge /\ ~ call.albedo /\ ~ call.normal /\ pc \notin {"idle", "done"}) =>
            /\ BridgeStepAs("denoise_texture")
            /\ BridgeStepAs("denoise_texture_with_aux")]_vars

C25_Witness ==
    /\ call.kind = "denoise_texture_with_aux" /\ ~ call.albedo /\ ~ call.normal
    /\ call.output = "output" /\ pc = "done" /\ result = Ok
    /\ OpsNamed("copy_buffer_to_texture") # {}
    /\ gtex["output"].data # gtex["input"].data


\* The float in channel k (0..3) of a texel given as its words.
PixelFloat(words, fmt, k) ==
    IF fmt = "Rgba32Float" THEN F32FromBits(words[2 * k + 1], words[2 * k + 2])
    ELSE F16ToF32(words[k + 1])

\* Every upload copy in the log comes after the input's readback copy and the
\* get_mapped_range on its successfully mapped buffer.
InputReadBeforeUpload ==
    \A j \in OpsNamed("copy_buffer_to_texture") :
        \E i \in OpsNamed("copy_texture_to_buffer") :
            /\ ops[i].x = "input"
            /\ i + 3 < j
            /\ ops[i + 3].op = "get_mapped_range" /\ ops[i + 3].x = "mapped"

\* C26: in every bridge call the texture-to-buffer copy of the input and the
\* successful completion of its mapping come before the buffer-to-texture copy
\* to the output is submitted, so that in an in-place call (input and output
\* the same texture) the image handed to the engine holds the pixels the
\* texture held before the call.
C26_InPlaceReadsBeforeWrite ==
    InBridge =>
        /\ InputReadBeforeUpload
        /\ (call.output = "input" /\ pc = "x_entry") =>
            \A p \in 1..(gtex["input"].w * gtex["input"].h), k \in 0..2 :
                x.output[3 * (p - 1) + k + 1]
                    = PixelFloat(gtex["input"].data[p], gtex["input"].fmt, k)


\* C27: a bridge call returns Ok only after every readback buffer was mapped,
\* the engine has executed and been synchronized, and exactly one
\* buffer-to-texture copy, to the output, was submitted to the queue; once
\* that copy is submitted the call has returned: there is no poll of the GPU
\* device and no wait for the copy after it.
C27_OkAfterUploadSubmitted ==
    /\ (InBridge /\ pc = "done" /\ result = Ok) =>
        /\ \A i \in OpsNamed("copy_texture_to_buffer") :
            ops[i + 3].op = "get_mapped_range" /\ ops[i + 3].x = "mapped"
        /\ \E j \in OpsNamed("copy_buffer_to_texture") :
            /\ OpsNamed("copy_buffer_to_texture") = {j}
            /\ ops[j].x = call.output
            /\ ops[j + 1].op = "submit"
            /\ \A i \in DOMAIN ops : i > j + 1 => ops[i].op = "release_filter"
            /\ \E m \in OpsNamed("get_mapped_range"), e \in OpsNamed("execute"),
                  sy \in OpsNamed("sync") :
                m < e /\ e < sy /\ sy < j /\ OpsNamed("execute") = {e}
    /\ (InBridge /\ OpsNamed("copy_buffer_to_texture") # {}) =>
        pc = "done" /\ result = Ok /\ map = "mapped"

C27_Witness ==
    /\ InBridge /\ pc = "done" /\ result = Ok /\ call.albedo /\ call.normal
    /\ Cardinality(OpsNamed("copy_texture_to_buffer")) = 3
    /\ OpsNamed("copy_buffer_to_texture") # {}


\* Buffer handles thread t has allocated / released, from its log.
ThreadAllocated(t) ==
    {threads[t].log[i].h : i \in {j \in DOMAIN threads[t].log :
        threads[t].log[j].op = "alloc" /\ threads[t].log[j].h # Null}}
ThreadReleased(t) ==
    {threads[t].log[i].h : i \in {j \in DOMAIN threads[t].log : threads[t].log[j].op = "release"}}
\* Thread t's own engine calls all succeeded.
OwnCallsSucceeded(t) ==
    /\ threads[t].raised = NoError
    /\ \A i \in DOMAIN threads[t].log :
        threads[t].log[i].op = "alloc" => threads[t].log[i].h # Null

\* C28: calls running on different threads on one shared device are
\* independent: each allocates and releases only its own scratch buffers, an
\* engine error raised by a call's execute is returned by that call, and a
\* call whose own execution succeeded does not return another call's error.
C28_ConcurrentCallsIndependent ==
    \A t \in DOMAIN threads :
        /\ ThreadReleased(t) \subseteq ThreadAllocated(t)
        /\ \A u \in DOMAIN threads \ {t} : ThreadAllocated(t) \cap ThreadAllocated(u) = {}
        /\ threads[t].pc = "t_done" =>
            /\ threads[t].raised # NoError =>
                threads[t].result = OidnError(threads[t].raised.code, threads[t].raised.message)
            /\ OwnCallsSucceeded(t) =>
                \A u \in DOMAIN threads \ {t} :
                    threads[u].raised # NoError =>
                        threads[t].result # OidnError(threads[u].raised.code,
                                                      threads[u].raised.message)


\* C29: execute_with_aux accepts any subset of the aux images.  With albedo
\* only, normal only, both or neither, a call with valid arguments that the
\* engine serves without failure returns Ok; a scratch buffer is allocated for
\* the "albedo" slot and bound to it only if albedo is supplied, and when the
\* call gets to commit exactly if it is supplied; likewise for "normal".
C29_AnyAuxSubset ==
    call.kind = "execute_with_aux" =>
        /\ (pc = "done" /\ ~ ArgsInvalid /\ NullAllocations = {}
                /\ \A i \in OpsNamed("take_error") : ops[i].x = NoError) => result = Ok
        /\ x.albedo_buf.some => x.albedo.some
        /\ x.normal_buf.some => x.normal.some
        /\ BoundTo("albedo") # Null => x.albedo.some /\ BoundTo("albedo") = x.albedo_buf.v
        /\ BoundTo("normal") # Null => x.normal.some /\ BoundTo("normal") = x.normal_buf.v
        /\ Cardinality(OpsNamed("alloc"))
              <= 1 + Cardinality({s \in {"color", "albedo", "normal"} : x[s].some})
        /\ OpsNamed("commit") # {} =>
            /\ x.albedo.some <=> BoundTo("albedo") # Null
            /\ x.normal.some <=> BoundTo("normal") # Null
            /\ Cardinality(AllocatedInCall)
                  = 1 + Cardinality({s \in {"color", "albedo", "normal"} : x[s].some})

C29_Witness ==
    /\ call.kind = "execute_with_aux" /\ pc = "done" /\ result = Ok
    /\ x.albedo.some /\ ~ x.normal.some
    /\ BoundTo("albedo") # Null /\ BoundTo("normal") = Null


\* C30: in every execute_with_aux run that gets to execute, the uploads of the
\* call's images to its buffers, the binds of the image slots and the five
\* scalar sets (hdr, srgb, cleanAux, inputScale, quality) all come before
\* commit; commit happens once, before execute, and execute happens once.
C30_ConfigureCommitExecute ==
    (call.kind = "execute_with_aux" /\ OpsNamed("execute") # {}) =>
        \E c \in OpsNamed("commit"), e \in OpsNamed("execute") :
            /\ OpsNamed("commit") = {c} /\ OpsNamed("execute") = {e}
            /\ c < e
            /\ \A i \in OpsNamed("write") \cup OpsNamed("bind") \cup OpsNamed("set") : i < c
            /\ Cardinality(OpsNamed("write"))
                  = 1 + Cardinality({s \in {"albedo", "normal"} : x[s].some})
            /\ \A h \in AllocatedInCall : \E i \in OpsNamed("bind") : ops[i].h = h
            /\ {"color", "output"} \subseteq {ops[i].x : i \in OpsNamed("bind")}
            /\ Cardinality(OpsNamed("set")) = 5
            /\ {ops[i].x : i \in OpsNamed("set")}
                  = {"hdr", "srgb", "cleanAux", "inputScale", "quality"}

C30_Witness ==
    /\ call.kind = "execute_with_aux" /\ pc = "done" /\ OpsNamed("execute") # {}
    /\ x.color.some /\ x.albedo.some /\ x.normal.some
    /\ Cardinality(OpsNamed("write")) = 3 /\ Cardinality(OpsNamed("bind")) = 4


\* The calling thread is in the map wait loop (lines 147-155 / 391-399).
InMapWait == InBridge /\ pc \in {"rb_poll", "rb_try_recv"}

\* C31: the blocking map wait ends when a result arrives and only then.  Once
\* the callback has sent success the loop exits to decoding; once it has sent
\* failure, or was dropped unsent, the call ends with BufferMapFailed; and while
\* nothing has arrived the thread stays in the loop and polls again.
C31_MapWaitTerminates ==
    /\ [](InMapWait /\ pc = "rb_poll" => map = "pending" /\ chan = "empty")
    /\ [][(InMapWait /\ ~ InMapWait') =>
            \/ (chan = "ok" /\ pc' = "rb_decode")
            \/ (chan \in {"err", "closed"} /\ pc' = "done" /\ result' = ErrBufferMapFailed)]_vars
    /\ (InMapWait /\ chan = "ok") ~> (pc = "rb_decode")
    /\ (InMapWait /\ chan \in {"err", "closed"}) ~> (pc = "done" /\ result = ErrBufferMapFailed)
    /\ (InMapWait /\ pc = "rb_try_recv" /\ chan = "empty") ~> (InMapWait /\ pc = "rb_poll")

C31_Witness ==
    /\ InBridge /\ pc = "done" /\ result = ErrBufferMapFailed /\ map = "dropped"
    /\ bl.target = "albedo"


\* C32: once an allocation of an execute_with_aux call has returned a null
\* handle, the call makes no further allocation and no upload: what follows is
\* the release of its buffers and the error query (a failed albedo allocation
\* is not followed by a normal allocation).
C32_NoWorkAfterNullAllocation ==
    call.kind = "execute_with_aux" =>
        \A i \in NullAllocations :
            \A j \in DOMAIN ops : j > i => ops[j].op \in {"release", "take_error"}


\* C33: over the life of an OidnDevice and its clones the engine handle is
\* released once: the oidnReleaseDevice calls never exceed one plus the
\* explicit retain calls, and none is made while a clone is still alive.
C33_DeviceReleasedOnce ==
    /\ device.releases <= 1 + device.retains
    /\ device.alive > 0 => device.releases = 0


\* The engine errors recorded by the engine calls of the running call (the x
\* of an alloc, commit or execute entry is the error that call raised).
RaisedInCall ==
    {ops[i].x : i \in OpsNamed("alloc") \cup OpsNamed("commit") \cup OpsNamed("execute")}
        \ {NoError}

\* C34: an execute call returns an engine error only if the engine recorded
\* that error during the call; with an error of an earlier operation in the
\* device's slot at entry and no error raised during the call, it returns Ok.
C34_OnlyOwnEngineErrors ==
    (call.kind \in DirectKinds /\ pc = "done") =>
        /\ result.tag = "OidnError" =>
            \E e \in RaisedInCall : result = OidnError(e.code, e.message)
        /\ (OpsNamed("execute") # {} /\ RaisedInCall = {} /\ NullAllocations = {}) =>
            result = Ok


\* C35: on a reused RtFilter, at every commit each image slot bound on the
\* filter refers to a scratch buffer that the current call allocated and has
\* not released; a call without albedo (normal) commits with the "albedo"
\* ("normal") slot unbound.
C35_SlotsBoundToOwnLiveBuffers ==
    (call.kind = "execute_with_aux" /\ pc = "x_commit") =>
        /\ \A s \in DOMAIN rt.slots :
              rt.slots[s] # Null => rt.slots[s] \in AllocatedInCall /\ rt.slots[s] \in live
        /\ ~ x.albedo_buf.some => rt.slots.albedo = Null
        /\ ~ x.normal_buf.some => rt.slots.normal = Null


\* The caller's output slice as it was handed to the running execute call
\* (the calls pass a slice filled with F32Half; its length never changes).
OutputAtEntry == Fill(Len(x.output), F32Half)

\* C36: when execute_with_aux (or execute_in_place, its call without color)
\* returns Err, the caller's output / color slice holds the values it held
\* before the call.
C36_ErrLeavesOutputUntouched ==
    (call.kind = "execute_with_aux" /\ pc = "done" /\ result # Ok) =>
        x.output = OutputAtEntry


\* C37: for every width and height from 1 to 32768 and both encodings the
\* 32-bit products w*bpp, w*h and padded_bytes_per_row*h do not overflow: the
\* upload staging buffer is as long as the readback buffer is large, and the
\* pixel count is the true width * height.
C37_SizesDoNotOverflow ==
    (call.w <= 32768 /\ call.h <= 32768) =>
        /\ pc # "s_panic"
        /\ pc \in {"s_pixels", "s_staging", "s_done"} =>
              bl.bytes_per_row = call.w * BytesPerPixel(call.format)
        /\ pc = "s_done" =>
              /\ bl.upload_len = bl.buffer_size
              /\ bl.n_pixels = MulWide(call.w, call.h)


====
